---- MODULE Spec2Model ----
(***************************************************************************)
(* VibeGuard AI: the on-chain risk registry (VibeGuardRiskNFT.sol) and the *)
(* risk-level mappings of the agent, the contract analyzer and the server. *)
(*                                                                         *)
(* A transaction is one step.  A transaction that hits a failing require   *)
(* reverts: the EVM discards every write and every log of the transaction, *)
(* so the step changes only lastCall (what the caller observes) and        *)
(* emitted (empty for a reverted transaction).                             *)
(***************************************************************************)
EXTENDS Integers, Sequences, FiniteSets, TLC

(***************************************************************************)
(* Addresses                                                               *)
(***************************************************************************)
ZeroAddress == "0x0000"
ContractAddress == "VibeGuardRiskNFT"
Deployer == "owner.address"
AgentAcct == "agent.address"
UserAcct == "user.address"
DUMMY_TOKEN == "0x1111"
DUMMY_TOKEN_2 == "0x2222"

Signers == {Deployer, AgentAcct, UserAcct}
Addresses == Signers \cup {ZeroAddress}
AgentArgs == {Deployer, AgentAcct}
TokenArgs == {ZeroAddress, DUMMY_TOKEN, DUMMY_TOKEN_2}

\* uint8 arguments: the ABI admits no value above 255
MaxUint8 == 255
Uint8 == 0..MaxUint8

(***************************************************************************)
(* State                                                                   *)
(***************************************************************************)
VARIABLES
    owner,              \* Ownable._owner
    authorizedAgents,   \* mapping(address => bool)
    nextTokenId,        \* _nextTokenId
    riskRegistry,       \* mapping(uint256 => RiskData), the written slots
    tokenToNftId,       \* mapping(address => uint256), default 0
    isRegistered,       \* mapping(address => bool)
    nftOwners,          \* ERC721._owners, the minted ids
    now,                \* block.timestamp
    emitted,            \* the events the last transaction appended to the log
    lastCall,           \* the last transaction: function, sender, arguments, outcome
    everAuthorized,     \* history: accounts whose authorizedAgents flag was ever set
    score,              \* risk-level mappings: the score under evaluation
    levels,             \* risk-level mappings: the level each implementation returned
    mempool,            \* transactions submitted to the chain and not yet mined
    mined,              \* history: the transactions of the pool in the order mined
    publish,            \* VibeGuardAgent.publishOnChain / scanAndPublish: the run in progress
    scan,               \* the scan request in progress: address, detector tasks, report
    scanHistory,        \* VibeGuardAgent.scanHistory: address -> last report
    stats,              \* the server's stats: totalScans, threatsDetected, scanHistory
    analysis            \* one detector applied to one input: what it was given and returned

regVars == <<owner, authorizedAgents, nextTokenId, riskRegistry, tokenToNftId,
             isRegistered, nftOwners>>
scanVars == <<scan, scanHistory, stats>>
offChainVars == <<score, levels, analysis, scan, scanHistory, stats>>
\* the clients of the registry: what they hold changes with the transactions they send
clientVars == <<mempool, mined, publish>>
vars == <<owner, authorizedAgents, nextTokenId, riskRegistry, tokenToNftId,
          isRegistered, nftOwners, now, emitted, lastCall, everAuthorized,
          score, levels, analysis, mempool, mined, publish, scan, scanHistory, stats>>

(***************************************************************************)
(* Risk levels                                                             *)
(***************************************************************************)
\* mutant: strict comparisons, every band limit falls into the next band
_getRiskLevel_Strict(s) ==
    IF s < 20 THEN "SAFE"
    ELSE IF s < 40 THEN "LOW"
    ELSE IF s < 60 THEN "MEDIUM"
    ELSE IF s < 80 THEN "HIGH"
    ELSE "CRITICAL"

\* VibeGuardRiskNFT._getRiskLevel
_getRiskLevel(s) ==
    IF s <= 20 THEN "SAFE"
    ELSE IF s <= 40 THEN "LOW"
    ELSE IF s <= 60 THEN "MEDIUM"
    ELSE IF s <= 80 THEN "HIGH"
    ELSE "CRITICAL"

\* VibeGuardAgent._getRiskLevel (agent/index.js)
Agent_getRiskLevel(s) ==
    IF s <= 20 THEN "SAFE"
    ELSE IF s <= 40 THEN "LOW"
    ELSE IF s <= 60 THEN "MEDIUM"
    ELSE IF s <= 80 THEN "HIGH"
    ELSE "CRITICAL"

\* ContractAnalyzer._getRiskLevel (agent/contractAnalyzer.js)
Analyzer_getRiskLevel(s) ==
    IF s <= 20 THEN "SAFE"
    ELSE IF s <= 40 THEN "LOW"
    ELSE IF s <= 60 THEN "MEDIUM"
    ELSE IF s <= 80 THEN "HIGH"
    ELSE "CRITICAL"

\* mutant: the server puts the HIGH limit at 79
Server_riskLevel_High79(overallRisk) ==
    IF overallRisk <= 20 THEN "SAFE"
    ELSE IF overallRisk <= 40 THEN "LOW"
    ELSE IF overallRisk <= 60 THEN "MEDIUM"
    ELSE IF overallRisk < 80 THEN "HIGH"
    ELSE "CRITICAL"

\* the conditional chain of GET /api/scan/:address (server/index.js)
Server_riskLevel(overallRisk) ==
    IF overallRisk <= 20 THEN "SAFE"
    ELSE IF overallRisk <= 40 THEN "LOW"
    ELSE IF overallRisk <= 60 THEN "MEDIUM"
    ELSE IF overallRisk <= 80 THEN "HIGH"
    ELSE "CRITICAL"

NotEvaluated ==
    [registry |-> "", agent |-> "", analyzer |-> "", server |-> ""]

(***************************************************************************)
(* Transactions                                                            *)
(***************************************************************************)
OK == "ok"
EmptyMap == [i \in {} |-> 0]
NoScores == <<>>
NoReturn == <<>>

Call(op, sender, target, scores, status, ret) ==
    [op |-> op, sender |-> sender, target |-> target, scores |-> scores,
     status |-> status, ret |-> ret]

\* a reverted transaction: no write and no log survives
Revert(op, sender, target, scores, reason) ==
    /\ lastCall' = Call(op, sender, target, scores, reason, NoReturn)
    /\ emitted' = <<>>
    /\ UNCHANGED <<regVars, everAuthorized, now, offChainVars>>

\* mutant: the modifier looks at the authorizedAgents flag only
onlyAuthorizedAgent_FlagOnly(sender) == authorizedAgents[sender]

\* modifier onlyAuthorizedAgent
onlyAuthorizedAgent(sender) ==
    authorizedAgents[sender] \/ sender = owner

\* Ownable.onlyOwner
\* mutant: authorized agents pass the owner check as well
onlyOwner_OrAgent(sender) == sender = owner \/ authorizedAgents[sender]

onlyOwner(sender) == sender = owner

\* the state the constructor leaves
InitRegistry ==
    /\ owner = Deployer
    /\ authorizedAgents = [a \in Addresses |-> a = Deployer]
    /\ nextTokenId = 0
    /\ riskRegistry = EmptyMap
    /\ tokenToNftId = [a \in TokenArgs |-> 0]
    /\ isRegistered = [a \in TokenArgs |-> FALSE]
    /\ nftOwners = EmptyMap
    /\ now = 1
    /\ emitted = << [name |-> "OwnershipTransferred", previousOwner |-> ZeroAddress,
                     newOwner |-> Deployer] >>
    /\ lastCall = Call("constructor", Deployer, ZeroAddress, NoScores, OK, NoReturn)
    /\ everAuthorized = {Deployer}

Null == "null"

\* what a publishOnChain run leaves behind for the next one to be compared with
NoRun == [tokenAddress |-> ZeroAddress, report |-> NoScores, sent |-> <<>>, txHash |-> Null]

\* no publishOnChain run has started
NoPublish ==
    [pc |-> "idle", tokenAddress |-> ZeroAddress, report |-> NoScores,
     connected |-> FALSE, found |-> FALSE, sent |-> <<>>, txHash |-> Null,
     runs |-> 0, prev |-> NoRun]

\* no client has sent anything; one agent, signing as AgentAcct
InitClients ==
    /\ mempool = EmptyMap
    /\ mined = <<>>
    /\ publish = [p \in {AgentAcct} |-> NoPublish]

\* the five detectors, in the order the aggregators start them
Detectors == {"contract", "liquidity", "creator", "flash", "mev"}

NoAddress == [isString |-> FALSE, chars |-> <<>>]
NoReport == [overallRisk |-> -1]
NoValue == [settled |-> FALSE]

\* an aggregator that has served no request: the agent of agent/index.js after
\* initialize(), the server of server/index.js, or the older agent of part_003
IdleScan(impl) ==
    [impl |-> impl, pc |-> "idle", address |-> NoAddress,
     tasks |-> [d \in Detectors |-> "idle"],
     values |-> [d \in Detectors |-> NoValue],
     report |-> NoReport, completed |-> 0]

InitScans(impl) ==
    /\ scan = IdleScan(impl)
    /\ scanHistory = EmptyMap
    /\ stats = [totalScans |-> 0, threatsDetected |-> 0, scanHistory |-> <<>>]

\* no detector has been applied yet
NoAnalysis == [op |-> "none"]

\* one call of a detector or of the combiner: the arguments and what it returned
Analysis(op, input, result) == [op |-> op, input |-> input, result |-> result]

Init ==
    /\ InitRegistry
    /\ InitClients
    /\ InitScans("agent")
    /\ score = 0
    /\ levels = NotEvaluated
    /\ analysis = NoAnalysis

(***************************************************************************)
(* registerToken                                                           *)
(***************************************************************************)
\* mutant: the "Already registered" require is missing
registerTokenStatus_NoDuplicateCheck(sender, tokenAddress) ==
    IF ~onlyAuthorizedAgent(sender) THEN "VibeGuard: Not authorized"
    ELSE IF tokenAddress = ZeroAddress THEN "VibeGuard: Zero address"
    ELSE OK

\* the first failing require of registerToken, in the order the code runs them
registerTokenStatus(sender, tokenAddress) ==
    IF ~onlyAuthorizedAgent(sender) THEN "VibeGuard: Not authorized"
    ELSE IF isRegistered[tokenAddress] THEN "VibeGuard: Already registered"
    ELSE IF tokenAddress = ZeroAddress THEN "VibeGuard: Zero address"
    ELSE OK

\* mutant: a registered token starts at riskScore 0
PendingRiskData_ZeroScore(tokenAddress) ==
    [tokenAddress |-> tokenAddress, riskScore |-> 0, honeypotScore |-> 0,
     rugPullScore |-> 0, liquidityScore |-> 50, lastUpdated |-> now,
     isActive |-> TRUE, riskLevel |-> "PENDING"]

\* mutant: the initial riskLevel is derived from the initial riskScore
PendingRiskData_LevelFromScore(tokenAddress) ==
    [tokenAddress |-> tokenAddress, riskScore |-> 50, honeypotScore |-> 0,
     rugPullScore |-> 0, liquidityScore |-> 50, lastUpdated |-> now,
     isActive |-> TRUE, riskLevel |-> _getRiskLevel(50)]

\* the struct registerToken stores
PendingRiskData(tokenAddress) ==
    [tokenAddress |-> tokenAddress, riskScore |-> 50, honeypotScore |-> 0,
     rugPullScore |-> 0, liquidityScore |-> 50, lastUpdated |-> now,
     isActive |-> TRUE, riskLevel |-> "PENDING"]

registerToken(sender, tokenAddress) ==
    LET status == registerTokenStatus(sender, tokenAddress)
        tokenId == nextTokenId
    IN  IF status # OK
        THEN Revert("registerToken", sender, tokenAddress, NoScores, status)
        ELSE /\ nextTokenId' = nextTokenId + 1
             /\ nftOwners' = (tokenId :> ContractAddress) @@ nftOwners
             /\ riskRegistry' = (tokenId :> PendingRiskData(tokenAddress)) @@ riskRegistry
             /\ tokenToNftId' = [tokenToNftId EXCEPT ![tokenAddress] = tokenId]
             /\ isRegistered' = [isRegistered EXCEPT ![tokenAddress] = TRUE]
             /\ emitted' = << [name |-> "Transfer", from |-> ZeroAddress,
                               to |-> ContractAddress, tokenId |-> tokenId],
                              [name |-> "TokenRegistered", tokenId |-> tokenId,
                               tokenAddress |-> tokenAddress, timestamp |-> now] >>
             /\ lastCall' = Call("registerToken", sender, tokenAddress, NoScores, OK,
                                 <<tokenId>>)
             /\ UNCHANGED <<owner, authorizedAgents, everAuthorized, now, offChainVars>>

(***************************************************************************)
(* updateRiskScore                                                         *)
(***************************************************************************)
\* mutant: updateRiskScore lacks the onlyAuthorizedAgent modifier
updateRiskScoreStatus_NoModifier(sender, tokenAddress, riskScore, honeypotScore, rugPullScore, liquidityScore) ==
    IF ~isRegistered[tokenAddress] THEN "VibeGuard: Token not registered"
    ELSE IF ~(riskScore <= 100 /\ honeypotScore <= 100 /\ rugPullScore <= 100
              /\ liquidityScore <= 100)
    THEN "VibeGuard: Score out of range"
    ELSE OK

\* mutant: only riskScore is range-checked
updateRiskScoreStatus_RiskOnly(sender, tokenAddress, riskScore, honeypotScore, rugPullScore, liquidityScore) ==
    IF ~onlyAuthorizedAgent(sender) THEN "VibeGuard: Not authorized"
    ELSE IF ~isRegistered[tokenAddress] THEN "VibeGuard: Token not registered"
    ELSE IF ~(riskScore <= 100) THEN "VibeGuard: Score out of range"
    ELSE OK

\* mutant: the "Token not registered" require is missing
updateRiskScoreStatus_NoRegisteredCheck(sender, tokenAddress, riskScore, honeypotScore, rugPullScore, liquidityScore) ==
    IF ~onlyAuthorizedAgent(sender) THEN "VibeGuard: Not authorized"
    ELSE IF ~(riskScore <= 100 /\ honeypotScore <= 100 /\ rugPullScore <= 100
              /\ liquidityScore <= 100)
    THEN "VibeGuard: Score out of range"
    ELSE OK

\* mutant: the range check compares against the uint8 limit
updateRiskScoreStatus_Uint8Range(sender, tokenAddress, riskScore, honeypotScore, rugPullScore, liquidityScore) ==
    IF ~onlyAuthorizedAgent(sender) THEN "VibeGuard: Not authorized"
    ELSE IF ~isRegistered[tokenAddress] THEN "VibeGuard: Token not registered"
    ELSE IF ~(riskScore <= MaxUint8 /\ honeypotScore <= MaxUint8
              /\ rugPullScore <= MaxUint8 /\ liquidityScore <= MaxUint8)
    THEN "VibeGuard: Score out of range"
    ELSE OK

\* the first failing require of updateRiskScore, the modifier first
updateRiskScoreStatus(sender, tokenAddress, riskScore, honeypotScore, rugPullScore, liquidityScore) ==
    IF ~onlyAuthorizedAgent(sender) THEN "VibeGuard: Not authorized"
    ELSE IF ~isRegistered[tokenAddress] THEN "VibeGuard: Token not registered"
    ELSE IF ~(riskScore <= 100 /\ honeypotScore <= 100 /\ rugPullScore <= 100
              /\ liquidityScore <= 100)
    THEN "VibeGuard: Score out of range"
    ELSE OK

\* mutant: the update keeps the time of the record it replaces
ScoredRiskData_KeepsTime(tokenAddress, riskScore, honeypotScore, rugPullScore, liquidityScore) ==
    [tokenAddress |-> tokenAddress, riskScore |-> riskScore,
     honeypotScore |-> honeypotScore, rugPullScore |-> rugPullScore,
     liquidityScore |-> liquidityScore,
     lastUpdated |-> riskRegistry[tokenToNftId[tokenAddress]].lastUpdated,
     isActive |-> TRUE, riskLevel |-> _getRiskLevel(riskScore)]

\* mutant: the update merges into the stored record and keeps its liquidityScore
ScoredRiskData_Merge(tokenAddress, riskScore, honeypotScore, rugPullScore, liquidityScore) ==
    [riskRegistry[tokenToNftId[tokenAddress]] EXCEPT
        !.riskScore = riskScore, !.honeypotScore = honeypotScore,
        !.rugPullScore = rugPullScore, !.lastUpdated = now,
        !.riskLevel = _getRiskLevel(riskScore)]

\* the struct updateRiskScore stores
ScoredRiskData(tokenAddress, riskScore, honeypotScore, rugPullScore, liquidityScore) ==
    [tokenAddress |-> tokenAddress, riskScore |-> riskScore,
     honeypotScore |-> honeypotScore, rugPullScore |-> rugPullScore,
     liquidityScore |-> liquidityScore, lastUpdated |-> now,
     isActive |-> TRUE, riskLevel |-> _getRiskLevel(riskScore)]

\* mutant: three independent ifs instead of the else-if chain
AlertEvents_Independent(tokenId, tokenAddress, riskScore, honeypotScore, rugPullScore) ==
    (IF riskScore >= 80
     THEN << [name |-> "AlertTriggered", tokenId |-> tokenId, tokenAddress |-> tokenAddress,
              riskScore |-> riskScore, alertType |-> "CRITICAL_RISK"] >>
     ELSE <<>>)
    \o (IF honeypotScore >= 70
        THEN << [name |-> "AlertTriggered", tokenId |-> tokenId,
                 tokenAddress |-> tokenAddress, riskScore |-> honeypotScore,
                 alertType |-> "HONEYPOT_WARNING"] >>
        ELSE <<>>)
    \o (IF rugPullScore >= 70
        THEN << [name |-> "AlertTriggered", tokenId |-> tokenId,
                 tokenAddress |-> tokenAddress, riskScore |-> rugPullScore,
                 alertType |-> "RUG_PULL_WARNING"] >>
        ELSE <<>>)

\* the if / else-if chain that follows RiskScoreUpdated
AlertEvents(tokenId, tokenAddress, riskScore, honeypotScore, rugPullScore) ==
    IF riskScore >= 80
    THEN << [name |-> "AlertTriggered", tokenId |-> tokenId, tokenAddress |-> tokenAddress,
             riskScore |-> riskScore, alertType |-> "CRITICAL_RISK"] >>
    ELSE IF honeypotScore >= 70
    THEN << [name |-> "AlertTriggered", tokenId |-> tokenId, tokenAddress |-> tokenAddress,
             riskScore |-> honeypotScore, alertType |-> "HONEYPOT_WARNING"] >>
    ELSE IF rugPullScore >= 70
    THEN << [name |-> "AlertTriggered", tokenId |-> tokenId, tokenAddress |-> tokenAddress,
             riskScore |-> rugPullScore, alertType |-> "RUG_PULL_WARNING"] >>
    ELSE <<>>

updateRiskScore(sender, tokenAddress, riskScore, honeypotScore, rugPullScore, liquidityScore) ==
    LET scores == <<riskScore, honeypotScore, rugPullScore, liquidityScore>>
        status == updateRiskScoreStatus(sender, tokenAddress, riskScore, honeypotScore,
                                        rugPullScore, liquidityScore)
        tokenId == tokenToNftId[tokenAddress]
        riskLevel == _getRiskLevel(riskScore)
    IN  IF status # OK
        THEN Revert("updateRiskScore", sender, tokenAddress, scores, status)
        ELSE /\ riskRegistry' = (tokenId :> ScoredRiskData(tokenAddress, riskScore,
                                     honeypotScore, rugPullScore, liquidityScore))
                                @@ riskRegistry
             /\ emitted' = << [name |-> "RiskScoreUpdated", tokenId |-> tokenId,
                               tokenAddress |-> tokenAddress, riskScore |-> riskScore,
                               riskLevel |-> riskLevel, timestamp |-> now] >>
                           \o AlertEvents(tokenId, tokenAddress, riskScore, honeypotScore,
                                          rugPullScore)
             /\ lastCall' = Call("updateRiskScore", sender, tokenAddress, scores, OK,
                                 NoReturn)
             /\ UNCHANGED <<owner, authorizedAgents, nextTokenId, tokenToNftId,
                            isRegistered, nftOwners, everAuthorized, now, offChainVars>>

(***************************************************************************)
(* Agent management                                                        *)
(***************************************************************************)
authorizeAgent(sender, agent) ==
    IF ~onlyOwner(sender)
    THEN Revert("authorizeAgent", sender, agent, NoScores, "OwnableUnauthorizedAccount")
    ELSE /\ authorizedAgents' = [authorizedAgents EXCEPT ![agent] = TRUE]
         /\ everAuthorized' = everAuthorized \cup {agent}
         /\ emitted' = << [name |-> "AgentAuthorized", agent |-> agent] >>
         /\ lastCall' = Call("authorizeAgent", sender, agent, NoScores, OK, NoReturn)
         /\ UNCHANGED <<owner, nextTokenId, riskRegistry, tokenToNftId, isRegistered,
                        nftOwners, now, offChainVars>>

revokeAgent(sender, agent) ==
    IF ~onlyOwner(sender)
    THEN Revert("revokeAgent", sender, agent, NoScores, "OwnableUnauthorizedAccount")
    ELSE /\ authorizedAgents' = [authorizedAgents EXCEPT ![agent] = FALSE]
         /\ emitted' = << [name |-> "AgentRevoked", agent |-> agent] >>
         /\ lastCall' = Call("revokeAgent", sender, agent, NoScores, OK, NoReturn)
         /\ UNCHANGED <<owner, nextTokenId, riskRegistry, tokenToNftId, isRegistered,
                        nftOwners, everAuthorized, now, offChainVars>>

(***************************************************************************)
(* Ownable, inherited: transferOwnership and renounceOwnership change the  *)
(* owner and nothing else; authorizedAgents is not touched.                *)
(***************************************************************************)
transferOwnership(sender, newOwner) ==
    IF ~onlyOwner(sender)
    THEN Revert("transferOwnership", sender, newOwner, NoScores, "OwnableUnauthorizedAccount")
    ELSE IF newOwner = ZeroAddress
    THEN Revert("transferOwnership", sender, newOwner, NoScores, "OwnableInvalidOwner")
    ELSE /\ owner' = newOwner
         /\ emitted' = << [name |-> "OwnershipTransferred", previousOwner |-> owner,
                           newOwner |-> newOwner] >>
         /\ lastCall' = Call("transferOwnership", sender, newOwner, NoScores, OK, NoReturn)
         /\ UNCHANGED <<authorizedAgents, nextTokenId, riskRegistry, tokenToNftId,
                        isRegistered, nftOwners, everAuthorized, now, offChainVars>>

renounceOwnership(sender) ==
    IF ~onlyOwner(sender)
    THEN Revert("renounceOwnership", sender, ZeroAddress, NoScores,
                "OwnableUnauthorizedAccount")
    ELSE /\ owner' = ZeroAddress
         /\ emitted' = << [name |-> "OwnershipTransferred", previousOwner |-> owner,
                           newOwner |-> ZeroAddress] >>
         /\ lastCall' = Call("renounceOwnership", sender, ZeroAddress, NoScores, OK, NoReturn)
         /\ UNCHANGED <<authorizedAgents, nextTokenId, riskRegistry, tokenToNftId,
                        isRegistered, nftOwners, everAuthorized, now, offChainVars>>

(***************************************************************************)
(* View functions: a call reads the state and returns; nothing is written  *)
(***************************************************************************)
View(op, sender, target, args, ret) ==
    /\ lastCall' = Call(op, sender, target, args, OK, ret)
    /\ emitted' = <<>>
    /\ UNCHANGED <<regVars, everAuthorized, now, offChainVars>>

\* a storage slot that was never written reads as the zero value
ZeroRiskData ==
    [tokenAddress |-> ZeroAddress, riskScore |-> 0, honeypotScore |-> 0,
     rugPullScore |-> 0, liquidityScore |-> 0, lastUpdated |-> 0,
     isActive |-> FALSE, riskLevel |-> ""]

riskRegistryAt(tokenId) ==
    IF tokenId \in DOMAIN riskRegistry THEN riskRegistry[tokenId] ELSE ZeroRiskData

\* mutant: isSafe reads the record without the isRegistered test
isSafeResult_NoRegisteredCheck(tokenAddress, maxRisk) ==
    riskRegistryAt(tokenToNftId[tokenAddress]).riskScore <= maxRisk

\* the value isSafe returns
isSafeResult(tokenAddress, maxRisk) ==
    IF ~isRegistered[tokenAddress] THEN FALSE
    ELSE riskRegistryAt(tokenToNftId[tokenAddress]).riskScore <= maxRisk

isSafe(sender, tokenAddress, maxRisk) ==
    View("isSafe", sender, tokenAddress, <<maxRisk>>,
         <<isSafeResult(tokenAddress, maxRisk)>>)

\* totalTokens()
totalTokens == nextTokenId

\* mutant: the read functions answer for a token that is not registered
readStatus_NoRegisteredCheck(tokenAddress) == OK

\* the require of queryRisk and of getFullRiskReport
readStatus(tokenAddress) ==
    IF ~isRegistered[tokenAddress] THEN "VibeGuard: Token not monitored" ELSE OK

\* the tuple queryRisk returns: (riskScore, riskLevel, lastUpdated)
queryRiskResult(tokenAddress) ==
    LET data == riskRegistryAt(tokenToNftId[tokenAddress])
    IN  <<data.riskScore, data.riskLevel, data.lastUpdated>>

queryRisk(sender, tokenAddress) ==
    IF readStatus(tokenAddress) # OK
    THEN Revert("queryRisk", sender, tokenAddress, NoScores, readStatus(tokenAddress))
    ELSE View("queryRisk", sender, tokenAddress, NoScores, queryRiskResult(tokenAddress))

getFullRiskReport(sender, tokenAddress) ==
    IF readStatus(tokenAddress) # OK
    THEN Revert("getFullRiskReport", sender, tokenAddress, NoScores,
                readStatus(tokenAddress))
    ELSE View("getFullRiskReport", sender, tokenAddress, NoScores,
              <<riskRegistryAt(tokenToNftId[tokenAddress])>>)

(***************************************************************************)
(* VibeGuardAgent.publishOnChain, run by the agent that signs as p. Every  *)
(* await is a step: the isRegistered read, registerToken with its receipt, *)
(* updateRiskScore with its receipt. Whatever is thrown inside the try     *)
(* block (a revert, a lost connection, a receipt that never arrives) ends  *)
(* in the catch block.                                                     *)
(***************************************************************************)
TxHash == "receipt.hash"
ConnectionError == "could not reach the node"
MaxRuns == 3

\* mutant: the catch block rethrows
Caught_Rethrow(run) == [run EXCEPT !.pc = "thrown"]

\* catch (error) { ...; return null; }
Caught(run) == [run EXCEPT !.pc = "returned", !.txHash = Null]

\* mutant: registerToken is sent whatever isRegistered answered
AfterCheck_AlwaysRegister(found) == "register"

\* if (!isRegistered) { registerToken } ; updateRiskScore
AfterCheck(found) == IF found THEN "update" ELSE "register"

\* the function the run is awaiting
Awaited(run) ==
    CASE run.pc = "check" -> "isRegistered"
      [] run.pc = "register" -> "registerToken"
      [] run.pc = "update" -> "updateRiskScore"

\* scanAndPublish: { report, txHash }
scanAndPublish(run) == [report |-> run.report, txHash |-> run.txHash]

PublishStart(p, tokenAddress, report, connected) ==
    /\ publish[p].pc \in {"idle", "returned"}
    /\ publish[p].runs < MaxRuns
    /\ LET old == publish[p]
           run == [pc |-> "check", tokenAddress |-> tokenAddress, report |-> report,
                   connected |-> connected, found |-> FALSE, sent |-> <<>>,
                   txHash |-> Null, runs |-> old.runs + 1,
                   prev |-> [tokenAddress |-> old.tokenAddress, report |-> old.report,
                             sent |-> old.sent, txHash |-> old.txHash]]
       IN  publish' = [publish EXCEPT ![p] =
                          IF connected THEN run ELSE [run EXCEPT !.pc = "returned"]]
    /\ UNCHANGED <<regVars, now, emitted, lastCall, everAuthorized, offChainVars,
                   mempool, mined>>

PublishCheck(p) ==
    LET run == publish[p]
        found == isRegistered[run.tokenAddress]
    IN  /\ run.pc = "check"
        /\ View("isRegistered", p, run.tokenAddress, NoScores, <<found>>)
        /\ publish' = [publish EXCEPT ![p] =
                          [run EXCEPT !.found = found, !.pc = AfterCheck(found)]]
        /\ UNCHANGED <<mempool, mined>>

\* registerToken and regTx.wait(); receipt says whether the receipt arrives
PublishRegisterWith(p, receipt) ==
    LET run == publish[p]
        sent == [run EXCEPT !.sent = Append(run.sent, "registerToken")]
    IN  /\ run.pc = "register"
        /\ registerToken(p, run.tokenAddress)
        /\ publish' = [publish EXCEPT ![p] =
                          IF lastCall'.status = OK /\ receipt
                          THEN [sent EXCEPT !.pc = "update"]
                          ELSE Caught(sent)]
        /\ UNCHANGED <<mempool, mined>>

PublishRegister(p) == \E receipt \in BOOLEAN : PublishRegisterWith(p, receipt)

\* updateRiskScore and updateTx.wait()
PublishUpdateWith(p, receipt) ==
    LET run == publish[p]
        sent == [run EXCEPT !.sent = Append(run.sent, "updateRiskScore")]
    IN  /\ run.pc = "update"
        /\ updateRiskScore(p, run.tokenAddress, run.report[1], run.report[2],
                           run.report[3], run.report[4])
        /\ publish' = [publish EXCEPT ![p] =
                          IF lastCall'.status = OK /\ receipt
                          THEN [sent EXCEPT !.pc = "returned", !.txHash = TxHash]
                          ELSE Caught(sent)]
        /\ UNCHANGED <<mempool, mined>>

PublishUpdate(p) == \E receipt \in BOOLEAN : PublishUpdateWith(p, receipt)

\* the awaited call never reaches the chain
PublishConnectionError(p) ==
    LET run == publish[p]
    IN  /\ run.pc \in {"check", "register", "update"}
        /\ Revert(Awaited(run), p, run.tokenAddress,
                  IF run.pc = "update" THEN run.report ELSE NoScores, ConnectionError)
        /\ publish' = [publish EXCEPT ![p] = Caught(run)]
        /\ UNCHANGED <<mempool, mined>>

(***************************************************************************)
(* Address validation. An address argument is a JavaScript value: a string *)
(* (its characters) or something else.                                     *)
(***************************************************************************)
HexChars ==
    {"0", "1", "2", "3", "4", "5", "6", "7", "8", "9",
     "a", "b", "c", "d", "e", "f", "A", "B", "C", "D", "E", "F"}

\* isValidAddress of agent/index.js: typeof string and /^0x[0-9a-fA-F]{40}$/
isValidAddress(addr) ==
    /\ addr.isString
    /\ Len(addr.chars) = 42
    /\ addr.chars[1] = "0" /\ addr.chars[2] = "x"
    /\ \A i \in 3..42 : addr.chars[i] \in HexChars

\* the test of GET /api/scan/:address, negated:
\* !(!address || !address.startsWith('0x') || address.length !== 42)
Server_addressAccepted(addr) ==
    /\ addr.isString
    /\ addr.chars # <<>>
    /\ Len(addr.chars) >= 2 /\ addr.chars[1] = "0" /\ addr.chars[2] = "x"
    /\ Len(addr.chars) = 42

\* what each implementation does with the address before it starts a detector
Accepts(impl, addr) ==
    CASE impl = "agent" -> isValidAddress(addr)
      [] impl = "server" -> Server_addressAccepted(addr)
      [] impl = "legacy" -> TRUE

(***************************************************************************)
(* The aggregators: VibeGuardAgent.scanToken (agent/index.js), the scan    *)
(* endpoint of server/index.js and the older scanToken of part_003.        *)
(* Math.round(x) is floor(x + 1/2); the weights are written over a common  *)
(* denominator.                                                            *)
(***************************************************************************)
Min(a, b) == IF a <= b THEN a ELSE b
Max(a, b) == IF a >= b THEN a ELSE b

\* Math.round(n / d) for d > 0
RoundDiv(n, d) == (2 * n + d) \div (2 * d)

\* the detectors each implementation starts
Started(impl) ==
    IF impl = "legacy" THEN {"contract", "liquidity", "creator"} ELSE Detectors

\* the object the agent substitutes for a rejected detector
Agent_default(d) ==
    CASE d = "contract" -> [overallRisk |-> 50, honeypotScore |-> 0, rugPullScore |-> 0,
                            detected |-> {}]
      [] d = "liquidity" -> [liquidityHealth |-> 50]
      [] d = "creator" -> [riskScore |-> 50]
      [] d = "flash" -> [flashLoanRisk |-> 0]
      [] d = "mev" -> [mevRisk |-> 0]

\* the object the server substitutes for a rejected detector
Server_default(d) ==
    CASE d = "contract" -> [overallRisk |-> 0, honeypotScore |-> 0, rugPullScore |-> 0,
                            detected |-> {}]
      [] d = "liquidity" -> [liquidityHealth |-> 50]
      [] d = "creator" -> [riskScore |-> 0]
      [] d = "flash" -> [flashLoanRisk |-> 0]
      [] d = "mev" -> [mevRisk |-> 0]

Default(impl, d) == IF impl = "server" THEN Server_default(d) ELSE Agent_default(d)

\* x || 0 and x || 50 on a number
OrZero(x) == x
Or50(x) == IF x = 0 THEN 50 ELSE x

\* mutant: the overall risk is averaged with the one of the report that scan
\* history holds for the address
Agent_report_Blended(address, in) ==
    LET c == in["contract"]
        creatorRisk == in["creator"].riskScore
        liquidityScore == in["liquidity"].liquidityHealth
        honeypotScore == Min(100, RoundDiv(7 * c.honeypotScore + 3 * creatorRisk, 10))
        rugPullScore == Min(100, RoundDiv(5 * c.rugPullScore + 3 * creatorRisk
                                          + 2 * (100 - liquidityScore), 10))
        fresh == Min(100, RoundDiv(30 * c.overallRisk + 20 * honeypotScore
                                   + 15 * rugPullScore + 10 * (100 - liquidityScore)
                                   + 13 * in["flash"].flashLoanRisk
                                   + 12 * in["mev"].mevRisk, 100))
        overallRisk == IF address \in DOMAIN scanHistory
                       THEN RoundDiv(fresh + scanHistory[address].overallRisk, 2)
                       ELSE fresh
    IN  [tokenAddress |-> address, overallRisk |-> overallRisk,
         riskLevel |-> Agent_getRiskLevel(overallRisk), honeypotScore |-> honeypotScore,
         rugPullScore |-> rugPullScore, liquidityScore |-> liquidityScore,
         flashLoanRisk |-> in["flash"].flashLoanRisk, mevRisk |-> in["mev"].mevRisk]

\* scanToken of agent/index.js, from the five reports
\* mutant: the liquidity term of rugPullScore with its sign slipped
Agent_report_SignSlip(address, in) ==
    LET c == in["contract"]
        creatorRisk == in["creator"].riskScore
        liquidityScore == in["liquidity"].liquidityHealth
        honeypotScore == Min(100, RoundDiv(7 * c.honeypotScore + 3 * creatorRisk, 10))
        rugPullScore == Min(100, RoundDiv(5 * c.rugPullScore + 3 * creatorRisk
                                          + 2 * (liquidityScore - 100), 10))
        overallRisk == Min(100, RoundDiv(30 * c.overallRisk + 20 * honeypotScore
                                         + 15 * rugPullScore + 10 * (100 - liquidityScore)
                                         + 13 * in["flash"].flashLoanRisk
                                         + 12 * in["mev"].mevRisk, 100))
    IN  [tokenAddress |-> address, overallRisk |-> overallRisk,
         riskLevel |-> Agent_getRiskLevel(overallRisk), honeypotScore |-> honeypotScore,
         rugPullScore |-> rugPullScore, liquidityScore |-> liquidityScore,
         flashLoanRisk |-> in["flash"].flashLoanRisk, mevRisk |-> in["mev"].mevRisk]

Agent_report(address, in) ==
    LET c == in["contract"]
        creatorRisk == in["creator"].riskScore
        liquidityScore == in["liquidity"].liquidityHealth
        honeypotScore == Min(100, RoundDiv(7 * c.honeypotScore + 3 * creatorRisk, 10))
        rugPullScore == Min(100, RoundDiv(5 * c.rugPullScore + 3 * creatorRisk
                                          + 2 * (100 - liquidityScore), 10))
        overallRisk == Min(100, RoundDiv(30 * c.overallRisk + 20 * honeypotScore
                                         + 15 * rugPullScore + 10 * (100 - liquidityScore)
                                         + 13 * in["flash"].flashLoanRisk
                                         + 12 * in["mev"].mevRisk, 100))
    IN  [tokenAddress |-> address, overallRisk |-> overallRisk,
         riskLevel |-> Agent_getRiskLevel(overallRisk), honeypotScore |-> honeypotScore,
         rugPullScore |-> rugPullScore, liquidityScore |-> liquidityScore,
         flashLoanRisk |-> in["flash"].flashLoanRisk, mevRisk |-> in["mev"].mevRisk]

\* the result object of GET /api/scan/:address
Server_report(address, in) ==
    LET c == in["contract"]
        creatorRisk == OrZero(in["creator"].riskScore)
        liquidityHealth == Or50(in["liquidity"].liquidityHealth)
        honeypotScore == Min(100, RoundDiv(7 * OrZero(c.honeypotScore) + 3 * creatorRisk, 10))
        rugPullScore == Min(100, RoundDiv(5 * OrZero(c.rugPullScore) + 3 * creatorRisk
                                          + 2 * (100 - liquidityHealth), 10))
        ownershipRisk ==
            Min(100, (IF "hidden_owner" \in c.detected THEN 30 ELSE 0)
                     + (IF "can_take_back_ownership" \in c.detected THEN 25 ELSE 0)
                     + (IF "owner_change_balance" \in c.detected THEN 35 ELSE 0)
                     + (IF "is_ownership_renounced" \in c.detected THEN -15 ELSE 10))
        taxRisk ==
            Min(100, (IF "tax_modifiable" \in c.detected THEN 25 ELSE 0)
                     + (IF "has_buy_tax" \in c.detected THEN 10 ELSE 0)
                     + (IF "has_sell_tax" \in c.detected THEN 15 ELSE 0)
                     + (IF "high_tax_risk" \in c.detected THEN 40 ELSE 0))
        overallRisk == Min(100, RoundDiv(35 * OrZero(c.overallRisk) + 20 * honeypotScore
                                         + 15 * rugPullScore
                                         + 10 * OrZero(in["flash"].flashLoanRisk)
                                         + 10 * OrZero(in["mev"].mevRisk)
                                         + 10 * (100 - liquidityHealth), 100))
    IN  [address |-> address, overallRisk |-> overallRisk,
         riskLevel |-> Server_riskLevel(overallRisk), honeypotScore |-> honeypotScore,
         rugPullScore |-> rugPullScore, liquidityHealth |-> liquidityHealth,
         flashLoanRisk |-> OrZero(in["flash"].flashLoanRisk),
         mevRisk |-> OrZero(in["mev"].mevRisk),
         ownershipRisk |-> Max(0, ownershipRisk), taxRisk |-> taxRisk]

\* scanToken of part_003, from its three reports
Legacy_report(address, in) ==
    LET c == in["contract"]
        creatorRisk == in["creator"].riskScore
        liquidityScore == in["liquidity"].liquidityHealth
        honeypotScore == Min(100, RoundDiv(7 * c.honeypotScore + 3 * creatorRisk, 10))
        rugPullScore == Min(100, RoundDiv(5 * c.rugPullScore + 3 * creatorRisk
                                          + 2 * (100 - liquidityScore), 10))
        overallRisk == Min(100, RoundDiv(40 * c.overallRisk + 25 * honeypotScore
                                         + 20 * rugPullScore + 15 * (100 - liquidityScore),
                                         100))
    IN  [tokenAddress |-> address, overallRisk |-> overallRisk,
         riskLevel |-> Agent_getRiskLevel(overallRisk), honeypotScore |-> honeypotScore,
         rugPullScore |-> rugPullScore, liquidityScore |-> liquidityScore]

Report(impl, address, in) ==
    CASE impl = "agent" -> Agent_report(address, in)
      [] impl = "server" -> Server_report(address, in)
      [] impl = "legacy" -> Legacy_report(address, in)

\* results[i].status === "fulfilled" ? results[i].value : default
Extracted(run) ==
    [d \in Detectors |->
        IF run.tasks[d] = "fulfilled" THEN run.values[d] ELSE Default(run.impl, d)]

\* mutant: the join gives way at the first rejection, as Promise.all does
allSettled_FirstRejection(run) ==
    \/ \E d \in Started(run.impl) : run.tasks[d] = "rejected"
    \/ \A d \in Started(run.impl) : run.tasks[d] = "fulfilled"

\* Promise.allSettled resolves once no task is pending
allSettled(run) ==
    \A d \in Started(run.impl) : run.tasks[d] \in {"fulfilled", "rejected"}

\* Promise.all resolves once every task is fulfilled
allFulfilled(run) ==
    \A d \in Started(run.impl) : run.tasks[d] = "fulfilled"

\* Promise.all rejects as soon as one task is rejected
anyRejected(run) ==
    \E d \in Started(run.impl) : run.tasks[d] = "rejected"

MaxScans == 1

FinalPcs == {"idle", "returned", "rejected", "thrown"}

\* a request arrives: the address test, then every detector is started
ScanRequest(address) ==
    /\ scan.pc \in FinalPcs
    /\ IF ~Accepts(scan.impl, address)
       THEN scan' = [scan EXCEPT !.pc = "rejected", !.address = address,
                                 !.tasks = [d \in Detectors |-> "idle"],
                                 !.values = [d \in Detectors |-> NoValue],
                                 !.report = NoReport]
       ELSE /\ scan.completed < MaxScans
            /\ scan' = [scan EXCEPT !.pc = "waiting", !.address = address,
                                    !.tasks = [d \in Detectors |->
                                                  IF d \in Started(scan.impl)
                                                  THEN "pending" ELSE "idle"],
                                    !.values = [d \in Detectors |-> NoValue],
                                    !.report = NoReport]
    /\ UNCHANGED <<regVars, now, emitted, lastCall, everAuthorized, clientVars,
                   score, levels, analysis, scanHistory, stats>>

\* a detector's promise settles
DetectorSettles(d, outcome, value) ==
    /\ scan.tasks[d] = "pending"
    /\ scan' = [scan EXCEPT !.tasks[d] = outcome,
                            !.values[d] = IF outcome = "fulfilled" THEN value ELSE NoValue]
    /\ UNCHANGED <<regVars, now, emitted, lastCall, everAuthorized, clientVars,
                   score, levels, analysis, scanHistory, stats>>

\* mutant: a full history drops the entry just pushed
Remember_DropNewest(impl, address, report) ==
    IF impl = "server"
    THEN /\ stats' =
              [totalScans |-> stats.totalScans + 1,
               threatsDetected |-> stats.threatsDetected
                                   + (IF report.overallRisk >= 60 THEN 1 ELSE 0),
               scanHistory |->
                   LET pushed == Append(stats.scanHistory,
                                        [address |-> address,
                                         overallRisk |-> report.overallRisk,
                                         riskLevel |-> report.riskLevel])
                   IN  IF Len(pushed) > 100 THEN SubSeq(pushed, 1, 100) ELSE pushed]
         /\ UNCHANGED scanHistory
    ELSE /\ scanHistory' = (address :> report) @@ scanHistory
         /\ UNCHANGED stats

\* what a finished scan leaves behind: the server counts it and pushes it on
\* stats.scanHistory (at most 100 entries), the agent keeps the report by address
Remember(impl, address, report) ==
    IF impl = "server"
    THEN /\ stats' =
              [totalScans |-> stats.totalScans + 1,
               threatsDetected |-> stats.threatsDetected
                                   + (IF report.overallRisk >= 60 THEN 1 ELSE 0),
               scanHistory |->
                   LET pushed == Append(stats.scanHistory,
                                        [address |-> address,
                                         overallRisk |-> report.overallRisk,
                                         riskLevel |-> report.riskLevel])
                   IN  IF Len(pushed) > 100 THEN Tail(pushed) ELSE pushed]
         /\ UNCHANGED scanHistory
    ELSE /\ scanHistory' = (address :> report) @@ scanHistory
         /\ UNCHANGED stats

\* the code after the await, to the return
ScanCombine ==
    /\ scan.pc = "waiting"
    /\ IF scan.impl = "legacy" THEN allFulfilled(scan) ELSE allSettled(scan)
    /\ LET report == Report(scan.impl, scan.address, Extracted(scan))
       IN  /\ scan' = [scan EXCEPT !.pc = "returned", !.report = report,
                                   !.completed = scan.completed + 1]
           /\ Remember(scan.impl, scan.address, report)
    /\ UNCHANGED <<regVars, now, emitted, lastCall, everAuthorized, clientVars,
                   score, levels, analysis>>

\* a whole scan that ran before the one followed step by step: the request,
\* the detectors settling as tasks and values say, the combination and the
\* bookkeeping; analysis keeps what the combiner was given and what it returned
MaxEarlier == 2

EarlierScans == IF analysis.op = "scanToken" THEN analysis.input.earlier ELSE 0

EarlierScan(address, tasks, values) ==
    /\ scan.pc = "idle"
    /\ EarlierScans < MaxEarlier
    /\ Accepts(scan.impl, address)
    /\ LET run == [scan EXCEPT !.address = address, !.tasks = tasks, !.values = values]
           report == Report(scan.impl, address, Extracted(run))
       IN  /\ allSettled(run)
           /\ analysis' = Analysis("scanToken",
                                   [impl |-> scan.impl, in |-> Extracted(run),
                                    earlier |-> EarlierScans + 1], report)
           /\ Remember(scan.impl, address, report)
    /\ UNCHANGED <<regVars, now, emitted, lastCall, everAuthorized, clientVars,
                   score, levels, scan>>

\* part_003: Promise.all rejects and scanToken throws, whatever is still pending
ScanShortCircuit ==
    /\ scan.impl = "legacy"
    /\ scan.pc = "waiting"
    /\ anyRejected(scan)
    /\ scan' = [scan EXCEPT !.pc = "thrown"]
    /\ UNCHANGED <<regVars, now, emitted, lastCall, everAuthorized, clientVars,
                   score, levels, analysis, scanHistory, stats>>

(***************************************************************************)
(* ContractAnalyzer (contractAnalyzer.js). The bytecode is given by the    *)
(* markers (selectors, opcode patterns) it contains, the source text by    *)
(* the SOURCE_PATTERNS entries its regexes match and by the number of      *)
(* mainstream names its contract name mimics; a contract without verified  *)
(* source has the empty source text.                                       *)
(***************************************************************************)
RECURSIVE SumOf(_)
\* the sum of the second components of a set of <<name, number>> pairs
SumOf(pairs) ==
    IF pairs = {} THEN 0
    ELSE LET x == CHOOSE x \in pairs : TRUE IN x[2] + SumOf(pairs \ {x})

Abs(n) == IF n < 0 THEN 0 - n ELSE n

\* <<id, category, weight>>
DETECTION_FIELDS ==
    { <<"is_open_source", "Contract Security", 20>>,
      <<"is_proxy", "Contract Security", 15>>,
      <<"has_selfdestruct", "Contract Security", 40>>,
      <<"has_external_call", "Contract Security", 10>>,
      <<"is_upgradeable", "Contract Security", 20>>,
      <<"has_assembly", "Contract Security", 10>>,
      <<"is_honeypot", "Honeypot Detection", 50>>,
      <<"transfer_pausable", "Honeypot Detection", 30>>,
      <<"is_blacklisted", "Honeypot Detection", 25>>,
      <<"is_whitelisted", "Honeypot Detection", 10>>,
      <<"trading_cooldown", "Honeypot Detection", 15>>,
      <<"has_trading_toggle", "Honeypot Detection", 25>>,
      <<"personal_slippage_mod", "Honeypot Detection", 20>>,
      <<"hidden_owner", "Ownership Risks", 30>>,
      <<"can_take_back_ownership", "Ownership Risks", 25>>,
      <<"owner_change_balance", "Ownership Risks", 35>>,
      <<"is_ownership_renounced", "Ownership Risks", 0 - 15>>,
      <<"is_mintable", "Supply Manipulation", 30>>,
      <<"is_burnable", "Supply Manipulation", 5>>,
      <<"unlimited_supply", "Supply Manipulation", 25>>,
      <<"tax_modifiable", "Tax & Fees", 25>>,
      <<"has_buy_tax", "Tax & Fees", 10>>,
      <<"has_sell_tax", "Tax & Fees", 10>>,
      <<"high_tax_risk", "Tax & Fees", 30>>,
      <<"is_buy_back", "Tax & Fees", 5>>,
      <<"is_anti_whale", "Trading Restrictions", 15>>,
      <<"anti_whale_modifiable", "Trading Restrictions", 20>>,
      <<"has_max_tx", "Trading Restrictions", 15>>,
      <<"has_max_wallet", "Trading Restrictions", 10>>,
      <<"fake_token", "Fraud Detection", 40>>,
      <<"fake_standard_interface", "Fraud Detection", 35>>,
      <<"can_reinit", "Fraud Detection", 20>>,
      <<"can_remove_liquidity", "Rug Pull Indicators", 35>>,
      <<"has_liquidity_lock", "Rug Pull Indicators", 0 - 20>>,
      <<"owner_can_drain", "Rug Pull Indicators", 40>> }

FieldIds == { f[1] : f \in DETECTION_FIELDS }

\* what analyzeBytecodeFields looks for: <<field, the markers any of which sets
\* it, the risk it adds when set>>
BYTECODE_FIELDS ==
    { <<"has_selfdestruct", {"ff"}, 40>>,
      <<"is_proxy", {"363d3d373d3d3d363d73"}, 15>>,
      <<"has_owner", {"owner"}, 10>>,
      <<"can_renounce", {"renounceOwnership"}, 0 - 5>>,
      <<"can_transfer_ownership", {"transferOwnership"}, 15>>,
      <<"is_mintable", {"mint"}, 25>>,
      <<"is_burnable", {"burn"}, 5>>,
      <<"transfer_pausable", {"pause"}, 30>>,
      <<"has_max_tx", {"setMaxTxPercent"}, 20>>,
      <<"has_fee_function", {"setFee", "setTaxFee"}, 15>>,
      <<"has_fee_exclusion", {"excludeFromFee"}, 5>>,
      <<"is_blacklisted", {"blacklist"}, 25>> }

\* no code at the address: "0x"
NoBytecode == [code |-> "0x", contains |-> {}]

\* deployed code in which exactly these markers occur
Bytecode(markers) == [code |-> "0x60", contains |-> markers]

analyzeBytecodeFields(bytecode) ==
    IF bytecode = NoBytecode
    THEN [fields |-> EmptyMap, riskScore |-> 50]
    ELSE LET fields == [id \in { b[1] : b \in BYTECODE_FIELDS } |->
                          LET b == CHOOSE b \in BYTECODE_FIELDS : b[1] = id
                          IN  b[2] \cap bytecode.contains # {}]
             riskScore == SumOf({ <<b[1], b[3]>> : b \in {b \in BYTECODE_FIELDS : fields[b[1]]} })
         IN  [fields |-> fields, riskScore |-> Min(100, Max(0, riskScore))]

\* <<field, weight>> of the entries of SOURCE_PATTERNS
SOURCE_PATTERNS ==
    { <<"has_max_tx", 15>>, <<"has_max_wallet", 10>>, <<"is_blacklisted", 25>>,
      <<"is_whitelisted", 10>>, <<"has_selfdestruct", 40>>, <<"is_upgradeable", 20>>,
      <<"trading_cooldown", 10>>, <<"has_trading_toggle", 20>>, <<"is_anti_whale", 15>>,
      <<"has_assembly", 10>>, <<"is_proxy", 15>>, <<"transfer_pausable", 25>>,
      <<"personal_slippage_mod", 20>>,
      <<"can_remove_liquidity", 30>>, <<"is_mintable", 20>>,
      <<"is_ownership_renounced", 0 - 15>>, <<"has_liquidity_lock", 0 - 20>>,
      <<"owner_can_drain", 35>>, <<"has_external_call", 10>>, <<"can_reinit", 15>>,
      <<"tax_modifiable", 20>>, <<"has_buy_tax", 10>>, <<"has_sell_tax", 10>>,
      <<"high_tax_risk", 30>>, <<"is_buy_back", 5>>, <<"anti_whale_modifiable", 15>>,
      <<"fake_token", 35>>, <<"hidden_owner", 25>>, <<"owner_change_balance", 35>>,
      <<"can_take_back_ownership", 25>> }

\* no verified source: the empty string
NoSource == [text |-> "", matched |-> {}, mimics |-> 0]

\* verified source text: the pattern fields it matches and the number of
\* mainstream token names its contract name mimics
Source(matched, mimics) == [text |-> "contract", matched |-> matched, mimics |-> mimics]

\* verified source text that matches no pattern
CleanSource == Source({}, 0)

analyzeSourceFields(sourceCode) ==
    IF sourceCode = NoSource
    THEN [detectedFields |-> [id \in {"is_open_source"} |-> FALSE], score |-> 30]
    ELSE LET found == {"is_open_source"} \cup sourceCode.matched
                        \cup (IF sourceCode.mimics > 0 THEN {"fake_token"} ELSE {})
             weights == SumOf({ pat \in SOURCE_PATTERNS : pat[1] \in sourceCode.matched })
                          + 40 * sourceCode.mimics
         IN  [detectedFields |-> [id \in found |-> TRUE],
              score |-> Min(100, Max(0, weights))]

\* allFields[id].detected of analyzeContract
allFields(bytecodeAnalysis, sourceAnalysis) ==
    [id \in FieldIds |->
        \/ (id \in DOMAIN bytecodeAnalysis.fields /\ bytecodeAnalysis.fields[id])
        \/ (id \in DOMAIN sourceAnalysis.detectedFields
              /\ sourceAnalysis.detectedFields[id])]

_categoryScore(fields, category) ==
    SumOf({ <<f[1], Abs(f[3])>> : f \in {f \in DETECTION_FIELDS : f[2] = category /\ fields[f[1]]} })

\* the report of analyzeContract for the bytecode and source text fetched
analyzeContract(bytecode, sourceCode) ==
    LET fields == allFields(analyzeBytecodeFields(bytecode), analyzeSourceFields(sourceCode))
        honeypotScore == Min(100, _categoryScore(fields, "Honeypot Detection"))
        rugPullScore == Min(100, _categoryScore(fields, "Rug Pull Indicators"))
        ownershipRisk == Min(100, _categoryScore(fields, "Ownership Risks"))
        taxRisk == Min(100, _categoryScore(fields, "Tax & Fees"))
        tradingRisk == Min(100, _categoryScore(fields, "Trading Restrictions"))
        fraudRisk == Min(100, _categoryScore(fields, "Fraud Detection"))
        contractRisk == Min(100, _categoryScore(fields, "Contract Security"))
        overallRisk == Min(100, RoundDiv(25 * honeypotScore + 20 * rugPullScore
                                           + 15 * ownershipRisk + 10 * taxRisk
                                           + 5 * tradingRisk + 15 * fraudRisk
                                           + 10 * contractRisk, 100))
    IN  [isVerified |-> sourceCode # NoSource,
         overallRisk |-> overallRisk, riskLevel |-> Analyzer_getRiskLevel(overallRisk),
         honeypotScore |-> honeypotScore, rugPullScore |-> rugPullScore,
         ownershipRisk |-> ownershipRisk, taxRisk |-> taxRisk,
         tradingRisk |-> tradingRisk, fraudRisk |-> fraudRisk,
         contractRisk |-> contractRisk, detectionFields |-> fields]

AnalyzeContract(bytecode, sourceCode) ==
    /\ analysis = NoAnalysis
    /\ analysis' = Analysis("analyzeContract",
                            [bytecode |-> bytecode, sourceCode |-> sourceCode],
                            analyzeContract(bytecode, sourceCode))
    /\ UNCHANGED <<regVars, now, emitted, lastCall, everAuthorized, score, levels,
                   clientVars, scanVars>>

(***************************************************************************)
(* LiquidityMonitor.analyzeHolderConcentration (flashLoanDetector.js).     *)
(* holders is the ranked list of TokenHolderQuantity values, as numbers.   *)
(***************************************************************************)
RECURSIVE SumSeq(_)
SumSeq(seq) == IF seq = <<>> THEN 0 ELSE Head(seq) + SumSeq(Tail(seq))

\* (quantity / totalSupply) * 100 > percent, for totalSupply > 0
percentAbove(quantity, totalSupply, percent) == quantity * 100 > percent * totalSupply

\* mutant: the three top-holder tests are independent ifs
topHolderFindings_Cumulative(holders, totalSupply) ==
    IF ~(Len(holders) >= 1 /\ totalSupply > 0) THEN <<>>
    ELSE (IF percentAbove(holders[1], totalSupply, 50)
          THEN << [add |-> 40, severity |-> "CRITICAL"] >> ELSE <<>>)
         \o (IF percentAbove(holders[1], totalSupply, 30)
             THEN << [add |-> 25, severity |-> "HIGH"] >> ELSE <<>>)
         \o (IF percentAbove(holders[1], totalSupply, 15)
             THEN << [add |-> 10, severity |-> "MEDIUM"] >> ELSE <<>>)

\* "Check top holder concentration": what is added and the finding pushed
topHolderFindings(holders, totalSupply) ==
    IF ~(Len(holders) >= 1 /\ totalSupply > 0) THEN <<>>
    ELSE IF percentAbove(holders[1], totalSupply, 50)
         THEN << [add |-> 40, severity |-> "CRITICAL"] >>
    ELSE IF percentAbove(holders[1], totalSupply, 30)
         THEN << [add |-> 25, severity |-> "HIGH"] >>
    ELSE IF percentAbove(holders[1], totalSupply, 15)
         THEN << [add |-> 10, severity |-> "MEDIUM"] >>
    ELSE <<>>

\* "Check top 5 holders combined"
top5Findings(holders, totalSupply) ==
    IF ~(Len(holders) >= 5 /\ totalSupply > 0) THEN <<>>
    ELSE LET top5Total == SumSeq(SubSeq(holders, 1, 5))
         IN  IF percentAbove(top5Total, totalSupply, 80)
             THEN << [add |-> 30, severity |-> "CRITICAL"] >>
             ELSE IF percentAbove(top5Total, totalSupply, 60)
             THEN << [add |-> 15, severity |-> "HIGH"] >>
             ELSE <<>>

\* "Check if holder count is suspiciously low"
holderCountFindings(holders) ==
    IF Len(holders) < 10 THEN << [add |-> 20, severity |-> "HIGH"] >> ELSE <<>>

analyzeHolderConcentration(holders, totalSupply) ==
    IF Len(holders) = 0
    THEN [score |-> 30, findings |-> <<>>]
    ELSE LET found == topHolderFindings(holders, totalSupply)
                        \o top5Findings(holders, totalSupply)
                        \o holderCountFindings(holders)
         IN  [score |-> Min(100, SumSeq([i \in 1..Len(found) |-> found[i].add])),
              findings |-> [i \in 1..Len(found) |-> found[i].severity]]

AnalyzeHolderConcentration(holders, totalSupply) ==
    /\ analysis = NoAnalysis
    /\ analysis' = Analysis("analyzeHolderConcentration",
                            [holders |-> holders, totalSupply |-> totalSupply],
                            analyzeHolderConcentration(holders, totalSupply))
    /\ UNCHANGED <<regVars, now, emitted, lastCall, everAuthorized, score, levels,
                   clientVars, scanVars>>

(***************************************************************************)
(* The combiner alone: the score arithmetic of scanToken or of the server  *)
(* route applied to five detector reports                                  *)
(***************************************************************************)
Aggregate(impl, address, in) ==
    /\ analysis = NoAnalysis
    /\ analysis' = Analysis("aggregate", [impl |-> impl, in |-> in],
                            Report(impl, address, in))
    /\ UNCHANGED <<regVars, now, emitted, lastCall, everAuthorized, score, levels,
                   clientVars, scanVars>>

(***************************************************************************)
(* MEVDetector (contractAnalyzer.js): the bytecode is the set of selector  *)
(* groups it contains; getCode is called twice, each call may throw        *)
(***************************************************************************)
SwapSelectors ==
    {"swapExactTokensForTokens", "swapExactETHForTokens", "swapTokensForExactTokens"}

\* one marker per selector group the detector searches the bytecode for
MevMarkers ==
    {"setFee", "maxTx", "antiBot", "setCooldownEnabled", "approve", "increaseAllowance",
     "feeOnTransferSwap", "botIndicator", "pair"} \cup SwapSelectors

\* the answers of the two provider.getCode calls of one analyze
CodeFetch(failed, markers, pairFetchFailed) ==
    [failed |-> failed, markers |-> markers, pairFetchFailed |-> pairFetchFailed]

\* the change of sandwichVulnerability.score by _analyzeTokenProperties
_analyzeTokenProperties(code) ==
    (IF "setFee" \in code THEN 25 ELSE 0)
    - (IF "maxTx" \in code THEN 10 ELSE 0)
    - (IF "antiBot" \in code THEN 15 ELSE 0)

\* the change of sandwichVulnerability.score by _detectSandwichVulnerability
_detectSandwichVulnerability(code) ==
    (IF "setCooldownEnabled" \notin code THEN 15 ELSE 0)
    + (IF "approve" \in code /\ "increaseAllowance" \notin code THEN 10 ELSE 0)

\* slippageExposure.score after _analyzeSlippageExposure
_analyzeSlippageExposure(code) ==
    10 * Cardinality(SwapSelectors \cap code)
    + (IF "feeOnTransferSwap" \in code THEN 20 ELSE 0)

\* botActivity.detected after _detectBotPatterns
_detectBotPatterns(code) == "botIndicator" \in code

\* liquidityAnalysis.depth after _analyzeLiquidity, which catches its own fetch error
_analyzeLiquidity(fetch) ==
    IF fetch.pairFetchFailed THEN "unknown"
    ELSE IF "pair" \in fetch.markers THEN "has_lp_pair" ELSE "no_lp_detected"

\* mutant: one clamp on the whole sum
_computeRiskScore_OneClamp(sandwichScore, slippageScore, botDetected, depth) ==
    Min(100, Max(0, sandwichScore + slippageScore
                    + (IF botDetected THEN 15 ELSE 0)
                    + (IF depth = "has_lp_pair" THEN 5 ELSE 0)))

_computeRiskScore(sandwichScore, slippageScore, botDetected, depth) ==
    Min(100, Max(0, Max(0, sandwichScore) + slippageScore
                    + (IF botDetected THEN 15 ELSE 0)
                    + (IF depth = "has_lp_pair" THEN 5 ELSE 0)))

\* the results object MEVDetector.analyze returns
MEVDetector_analyze(fetch) ==
    IF fetch.failed
    THEN [mevRisk |-> 0, sandwichScore |-> 0, slippageScore |-> 0, botDetected |-> FALSE,
          depth |-> "unknown", details |-> {"Analysis error"}, recommendations |-> {}]
    ELSE LET code == fetch.markers
             sandwichScore == _analyzeTokenProperties(code) + _detectSandwichVulnerability(code)
             slippageScore == _analyzeSlippageExposure(code)
             depth == _analyzeLiquidity(fetch)
         IN  [mevRisk |-> _computeRiskScore(sandwichScore, slippageScore,
                                            _detectBotPatterns(code), depth),
              sandwichScore |-> sandwichScore, slippageScore |-> slippageScore,
              botDetected |-> _detectBotPatterns(code), depth |-> depth,
              details |-> IF fetch.pairFetchFailed THEN {"Liquidity analysis unavailable"}
                          ELSE {},
              recommendations |->
                  IF sandwichScore > 20 \/ slippageScore > 15 \/ _detectBotPatterns(code)
                  THEN {"mitigations"}
                  ELSE {"No significant MEV vulnerabilities detected"}]

MevAnalyze(fetch) ==
    /\ analysis = NoAnalysis
    /\ analysis' = Analysis("MEVDetector.analyze", fetch, MEVDetector_analyze(fetch))
    /\ UNCHANGED <<regVars, now, emitted, lastCall, everAuthorized, score, levels,
                   clientVars, scanVars>>

(***************************************************************************)
(* CreatorProfiler (flashLoanDetector.js): each of the three BscScan       *)
(* lookups either throws (network error, timeout) or answers; balances are *)
(* in thousandths of a BNB, so that "balance < 0.01" reads "balance < 10"  *)
(***************************************************************************)
\* the answer of one lookup: failed, or the fields the code reads from it
CreatorAnswer(failed, found) == [failed |-> failed, found |-> found]

DeployedAnswer(failed, creations) == [failed |-> failed, creations |-> creations]

\* hasBalance: data.result is truthy; hasTx: the transaction list has a first entry
WalletAnswer(failed, hasBalance, balance, hasTx, ageDays) ==
    [failed |-> failed, hasBalance |-> hasBalance, balance |-> balance,
     hasTx |-> hasTx, ageDays |-> ageDays]

getContractCreator(answer) == ~answer.failed /\ answer.found

getDeployedContracts(answer) == IF answer.failed THEN 0 ELSE answer.creations

getWalletInfo(answer) ==
    IF answer.failed
    THEN [balance |-> 0, walletAgeDays |-> 0]
    ELSE [balance |-> IF answer.hasBalance THEN answer.balance ELSE 0,
          walletAgeDays |-> IF answer.hasTx THEN answer.ageDays ELSE 0]

profileCreator(creatorAnswer, deployedAnswer, walletAnswer) ==
    IF ~getContractCreator(creatorAnswer)
    THEN [riskScore |-> 30, findings |-> {"Could not identify contract creator"}]
    ELSE LET deployed == getDeployedContracts(deployedAnswer)
             walletInfo == getWalletInfo(walletAnswer)
             age == walletInfo.walletAgeDays
             ageScore == IF age < 7 THEN 30
                         ELSE IF age < 30 THEN 15
                         ELSE IF age > 365 THEN 0 - 10 ELSE 0
             ageFindings == IF age < 7 THEN {"Wallet is very new"}
                            ELSE IF age < 30 THEN {"Wallet is relatively new"}
                            ELSE IF age > 365 THEN {"Wallet is established"} ELSE {}
             deployScore == IF deployed > 20 THEN 30
                            ELSE IF deployed > 10 THEN 15
                            ELSE IF deployed > 5 THEN 5 ELSE 0
             deployFindings == IF deployed > 20 THEN {"serial deployer"}
                               ELSE IF deployed > 10 THEN {"prolific deployer"}
                               ELSE IF deployed > 5 THEN {"Deployed contracts"} ELSE {}
             lowBalance == walletInfo.balance < 10
             rawScore == ageScore + deployScore + (IF lowBalance THEN 15 ELSE 0)
         IN  [riskScore |-> Min(100, Max(0, rawScore)),
              findings |-> ageFindings \cup deployFindings
                           \cup (IF lowBalance THEN {"Very low balance"} ELSE {})]

ProfileCreator(creatorAnswer, deployedAnswer, walletAnswer) ==
    /\ analysis = NoAnalysis
    /\ analysis' = Analysis("profileCreator",
                            [creator |-> creatorAnswer, deployed |-> deployedAnswer,
                             wallet |-> walletAnswer],
                            profileCreator(creatorAnswer, deployedAnswer, walletAnswer))
    /\ UNCHANGED <<regVars, now, emitted, lastCall, everAuthorized, score, levels,
                   clientVars, scanVars>>

(***************************************************************************)
(* scanToken as one step: the five detector promises have settled as tasks *)
(* says, with the reports of values                                        *)
(***************************************************************************)
ScanToken(address, tasks, values) ==
    /\ analysis = NoAnalysis
    /\ analysis' = Analysis("scanToken", [tasks |-> tasks, values |-> values],
                            Agent_report(address,
                                         Extracted([impl |-> "agent", tasks |-> tasks,
                                                    values |-> values])))
    /\ UNCHANGED <<regVars, now, emitted, lastCall, everAuthorized, score, levels,
                   clientVars, scanVars>>

(***************************************************************************)
(* FlashLoanDetector._analyzeOraclePatterns (flashLoanDetector.js): the    *)
(* bytecode is the set of function signatures <<name, arguments>> whose    *)
(* selector it contains                                                    *)
(***************************************************************************)
vulnerableOraclePatterns ==
    {"getReserves", "balanceOf", "slot0", "latestAnswer", "getAmountsOut", "getAmountOut",
     "quote"}

safeOracleIndicators ==
    {"observe", "consult", "getTimeWeightedAverage", "cumulativePrices", "twap"}

vulnerableFound(code) ==
    {p \in vulnerableOraclePatterns : <<p, "()">> \in code \/ <<p, "(address)">> \in code}

safeFound(code) == {p \in safeOracleIndicators : <<p, "()">> \in code}

\* mutant: the spot-price branch does not ask for the absence of TWAP indicators
_analyzeOraclePatterns_SpotFirst(code) ==
    IF vulnerableFound(code) # {}
    THEN [oracleAnalysis |-> [type |-> "spot_price", isVulnerable |-> TRUE,
                              details |-> vulnerableFound(code)],
          vulnerabilities |-> <<[type |-> "VULNERABLE_ORACLE", severity |-> "critical"]>>]
    ELSE IF safeFound(code) # {}
    THEN [oracleAnalysis |-> [type |-> "twap", isVulnerable |-> FALSE,
                              details |-> safeFound(code)],
          vulnerabilities |-> <<>>]
    ELSE [oracleAnalysis |-> [type |-> "no_oracle_detected", isVulnerable |-> FALSE,
                              details |-> {"No recognizable oracle pattern"}],
          vulnerabilities |-> <<>>]

\* results.oracleAnalysis and results.vulnerabilities after the call
_analyzeOraclePatterns(code) ==
    IF vulnerableFound(code) # {} /\ safeFound(code) = {}
    THEN [oracleAnalysis |-> [type |-> "spot_price", isVulnerable |-> TRUE,
                              details |-> vulnerableFound(code)],
          vulnerabilities |-> <<[type |-> "VULNERABLE_ORACLE", severity |-> "critical"]>>]
    ELSE IF safeFound(code) # {}
    THEN [oracleAnalysis |-> [type |-> "twap", isVulnerable |-> FALSE,
                              details |-> safeFound(code)],
          vulnerabilities |-> <<>>]
    ELSE [oracleAnalysis |-> [type |-> "no_oracle_detected", isVulnerable |-> FALSE,
                              details |-> {"No recognizable oracle pattern"}],
          vulnerabilities |-> <<>>]

AnalyzeOraclePatterns(code) ==
    /\ analysis = NoAnalysis
    /\ analysis' = Analysis("_analyzeOraclePatterns", code, _analyzeOraclePatterns(code))
    /\ UNCHANGED <<regVars, now, emitted, lastCall, everAuthorized, score, levels,
                   clientVars, scanVars>>

(***************************************************************************)
(* GET /api/scan/:address of the server as one step, from the request to   *)
(* the response: 400 for a malformed address, 500 when something inside    *)
(* the try block throws before the bookkeeping, else the report            *)
(***************************************************************************)
ServerScanRoute(address, tasks, values, throws) ==
    LET run == [scan EXCEPT !.address = address, !.tasks = tasks, !.values = values]
        report == Report("server", address, Extracted(run))
    IN  /\ scan.impl = "server"
        /\ scan.pc \in FinalPcs
        /\ IF ~Accepts("server", address)
           THEN /\ scan' = [scan EXCEPT !.pc = "rejected", !.address = address,
                                        !.report = NoReport]
                /\ UNCHANGED <<scanHistory, stats>>
           ELSE IF throws
           THEN /\ scan' = [run EXCEPT !.pc = "thrown", !.report = NoReport]
                /\ UNCHANGED <<scanHistory, stats>>
           ELSE /\ scan' = [run EXCEPT !.pc = "returned", !.report = report,
                                       !.completed = scan.completed + 1]
                /\ Remember("server", address, report)
        /\ UNCHANGED <<regVars, now, emitted, lastCall, everAuthorized, clientVars,
                       score, levels, analysis>>

(***************************************************************************)
(* pause / unpause: the contract declares neither and has no fallback, so  *)
(* the call matches no function selector and the transaction reverts.      *)
(***************************************************************************)
NoSuchFunction == "no such function"

pause(sender) ==
    Revert("pause", sender, ZeroAddress, NoScores, NoSuchFunction)

unpause(sender) ==
    Revert("unpause", sender, ZeroAddress, NoScores, NoSuchFunction)

\* stalenessThreshold(): the contract declares no such getter either
stalenessThreshold(sender) ==
    Revert("stalenessThreshold", sender, ZeroAddress, NoScores, NoSuchFunction)

(***************************************************************************)
(* Time: a block is mined without a transaction to the registry and        *)
(* block.timestamp advances.                                               *)
(***************************************************************************)
MaxTime == 2

Tick ==
    /\ now < MaxTime
    /\ now' = now + 1
    /\ lastCall' = Call("mine", ZeroAddress, ZeroAddress, NoScores, OK, NoReturn)
    /\ emitted' = <<>>
    /\ UNCHANGED <<regVars, everAuthorized, offChainVars, clientVars>>

(***************************************************************************)
(* Spec: the registry under every caller, with a small set of score tuples *)
(***************************************************************************)
\* <<riskScore, honeypotScore, rugPullScore, liquidityScore>>
ScoreArgs == { <<75, 60, 80, 30>>, <<85, 30, 30, 50>>, <<101, 0, 0, 0>>,
               <<50, 50, 50, 101>> }

RegisterTokenCall ==
    \E sender \in Signers, tokenAddress \in TokenArgs :
        registerToken(sender, tokenAddress) /\ UNCHANGED clientVars

UpdateRiskScoreCall ==
    \E sender \in Signers, tokenAddress \in TokenArgs, s \in ScoreArgs :
        updateRiskScore(sender, tokenAddress, s[1], s[2], s[3], s[4])
        /\ UNCHANGED clientVars

AuthorizeAgentCall ==
    \E sender \in Signers, agent \in AgentArgs :
        authorizeAgent(sender, agent) /\ UNCHANGED clientVars

RevokeAgentCall ==
    \E sender \in Signers, agent \in AgentArgs :
        revokeAgent(sender, agent) /\ UNCHANGED clientVars

PauseCall == \E sender \in Signers : pause(sender) /\ UNCHANGED clientVars

UnpauseCall == \E sender \in Signers : unpause(sender) /\ UNCHANGED clientVars

Next ==
    \/ RegisterTokenCall
    \/ UpdateRiskScoreCall
    \/ AuthorizeAgentCall
    \/ RevokeAgentCall
    \/ PauseCall
    \/ UnpauseCall

Spec == Init /\ [][Next]_vars

(***************************************************************************)
(* SpecScore: the owner writing two tokens while time passes; DUMMY_TOKEN  *)
(* takes score tuples around every threshold of the code (the band limits, *)
(* the alert limits 80 and 70, the range limit 100, the uint8 limit).      *)
(***************************************************************************)
ScoreTokens == {DUMMY_TOKEN, DUMMY_TOKEN_2}

ThresholdScoreArgs ==
    ({79, 80, 101} \X {69, 70, 101} \X {69, 70, 101} \X {100, 101})
    \cup { <<r, 0, 0, 50>> : r \in {0, 20, 21, 40, 41, 60, 61, 81, 100, MaxUint8} }

RegisterScoreToken ==
    \E tokenAddress \in ScoreTokens :
        registerToken(Deployer, tokenAddress) /\ UNCHANGED clientVars

UpdateAtThresholds ==
    \E s \in ThresholdScoreArgs :
        updateRiskScore(Deployer, DUMMY_TOKEN, s[1], s[2], s[3], s[4])
        /\ UNCHANGED clientVars

UpdateOther ==
    \E s \in ScoreArgs :
        updateRiskScore(Deployer, DUMMY_TOKEN_2, s[1], s[2], s[3], s[4])
        /\ UNCHANGED clientVars

NextScore ==
    \/ RegisterScoreToken
    \/ UpdateAtThresholds
    \/ UpdateOther
    \/ Tick

SpecScore == Init /\ [][NextScore]_vars

(***************************************************************************)
(* SpecLevel: the four risk-level mappings applied to one score            *)
(***************************************************************************)
InitLevel ==
    /\ InitRegistry
    /\ InitClients
    /\ InitScans("agent")
    /\ score \in Uint8
    /\ levels = NotEvaluated
    /\ analysis = NoAnalysis

EvaluateLevels ==
    /\ levels = NotEvaluated
    /\ levels' = [registry |-> _getRiskLevel(score),
                  agent |-> Agent_getRiskLevel(score),
                  analyzer |-> Analyzer_getRiskLevel(score),
                  server |-> Server_riskLevel(score)]
    /\ UNCHANGED <<regVars, now, emitted, lastCall, everAuthorized, score, analysis,
                   clientVars, scanVars>>

NextLevel == EvaluateLevels

SpecLevel == InitLevel /\ [][NextLevel]_vars

(***************************************************************************)
(* SpecQuery: anyone asking isSafe, with every uint8 limit, about a token  *)
(* the owner registers and scores and about a token nobody registers       *)
(***************************************************************************)
QueryTokens == {DUMMY_TOKEN, DUMMY_TOKEN_2}

QueryScoreArgs == ScoreArgs \cup { <<0, 0, 0, 50>>, <<100, 0, 0, 50>> }

RegisterQueryToken ==
    registerToken(Deployer, DUMMY_TOKEN) /\ UNCHANGED clientVars

UpdateQueryToken ==
    \E s \in QueryScoreArgs :
        updateRiskScore(Deployer, DUMMY_TOKEN, s[1], s[2], s[3], s[4])
        /\ UNCHANGED clientVars

IsSafeCall ==
    \E tokenAddress \in QueryTokens, maxRisk \in Uint8 :
        isSafe(UserAcct, tokenAddress, maxRisk) /\ UNCHANGED clientVars

NextQuery ==
    \/ RegisterQueryToken
    \/ UpdateQueryToken
    \/ IsSafeCall

SpecQuery == Init /\ [][NextQuery]_vars

(***************************************************************************)
(* SpecRead: the owner registers and scores two tokens while time passes,  *)
(* an account without write access tries the same, and a user reads the    *)
(* registry through queryRisk, getFullRiskReport and stalenessThreshold.   *)
(***************************************************************************)
ReadWriters == {Deployer, UserAcct}

ReadScoreArgs == { <<25, 10, 15, 80>>, <<85, 30, 30, 50>>, <<101, 0, 0, 0>> }

RegisterReadToken ==
    \E sender \in ReadWriters, tokenAddress \in TokenArgs :
        registerToken(sender, tokenAddress) /\ UNCHANGED clientVars

UpdateReadToken ==
    \E sender \in ReadWriters, tokenAddress \in ScoreTokens, s \in ReadScoreArgs :
        updateRiskScore(sender, tokenAddress, s[1], s[2], s[3], s[4])
        /\ UNCHANGED clientVars

QueryRiskCall ==
    \E tokenAddress \in TokenArgs :
        queryRisk(UserAcct, tokenAddress) /\ UNCHANGED clientVars

GetFullRiskReportCall ==
    \E tokenAddress \in TokenArgs :
        getFullRiskReport(UserAcct, tokenAddress) /\ UNCHANGED clientVars

StalenessThresholdCall == stalenessThreshold(UserAcct) /\ UNCHANGED clientVars

NextRead ==
    \/ RegisterReadToken
    \/ UpdateReadToken
    \/ QueryRiskCall
    \/ GetFullRiskReportCall
    \/ StalenessThresholdCall
    \/ Tick

SpecRead == Init /\ [][NextRead]_vars

(***************************************************************************)
(* SpecOwnership: ownership moves between the deployer and another account *)
(* or is renounced, agents are authorized and revoked (the owner itself    *)
(* included), and every signer tries to write DUMMY_TOKEN                  *)
(***************************************************************************)
OwnerArgs == {Deployer, AgentAcct, ZeroAddress}

TransferOwnershipCall ==
    \E sender \in AgentArgs, newOwner \in OwnerArgs :
        transferOwnership(sender, newOwner) /\ UNCHANGED clientVars

RenounceOwnershipCall ==
    \E sender \in AgentArgs : renounceOwnership(sender) /\ UNCHANGED clientVars

AuthorizeOwnerOrAgent ==
    \E sender \in AgentArgs, agent \in AgentArgs :
        authorizeAgent(sender, agent) /\ UNCHANGED clientVars

RevokeOwnerOrAgent ==
    \E sender \in AgentArgs, agent \in AgentArgs :
        revokeAgent(sender, agent) /\ UNCHANGED clientVars

RegisterByAnyone ==
    \E sender \in Signers : registerToken(sender, DUMMY_TOKEN) /\ UNCHANGED clientVars

UpdateByAnyone ==
    \E sender \in Signers :
        updateRiskScore(sender, DUMMY_TOKEN, 25, 10, 15, 80) /\ UNCHANGED clientVars

NextOwnership ==
    \/ TransferOwnershipCall
    \/ RenounceOwnershipCall
    \/ AuthorizeOwnerOrAgent
    \/ RevokeOwnerOrAgent
    \/ RegisterByAnyone
    \/ UpdateByAnyone

SpecOwnership == Init /\ [][NextOwnership]_vars

(***************************************************************************)
(* SpecAgents: every signer authorizing and revoking every kind of address,*)
(* the zero address included                                               *)
(***************************************************************************)
AnyAgentArgs == {ZeroAddress, AgentAcct, UserAcct}

AuthorizeAnyCall ==
    \E sender \in Signers, agent \in AnyAgentArgs :
        authorizeAgent(sender, agent) /\ UNCHANGED clientVars

RevokeAnyCall ==
    \E sender \in Signers, agent \in AnyAgentArgs :
        revokeAgent(sender, agent) /\ UNCHANGED clientVars

NextAgents ==
    \/ AuthorizeAnyCall
    \/ RevokeAnyCall

SpecAgents == Init /\ [][NextAgents]_vars

(***************************************************************************)
(* SpecAnalyze: analyzeContract applied to one contract: no bytecode or a  *)
(* choice of markers, no verified source or a choice of matched patterns   *)
(***************************************************************************)
BytecodeInputs ==
    {NoBytecode} \cup { Bytecode(ms) : ms \in SUBSET {"ff", "mint", "pause", "owner"} }

SourceInputs ==
    {NoSource} \cup
    { Source(ms, k) :
        ms \in SUBSET {"is_blacklisted", "is_ownership_renounced", "tax_modifiable",
                       "owner_can_drain", "has_liquidity_lock"},
        k \in {0, 1} }

AnalyzeContractCall ==
    \E bytecode \in BytecodeInputs, sourceCode \in SourceInputs :
        AnalyzeContract(bytecode, sourceCode)

NextAnalyze == AnalyzeContractCall

SpecAnalyze == Init /\ [][NextAnalyze]_vars

(***************************************************************************)
(* SpecHolders: analyzeHolderConcentration applied to one ranked holder    *)
(* list: none to MaxHolders holders, a top holder on either side of every  *)
(* tier limit for a supply of 100, the others holding one common amount    *)
(***************************************************************************)
MaxHolders == 10

HolderCounts == {0, 1, 4, 5, 9, MaxHolders}

TopQuantities == {15, 16, 30, 31, 50, 51}

OtherQuantities == {0, 8, 11, 16}

SupplyArgs == {0, 100}

HolderInputs ==
    { [i \in 1..n |-> IF i = 1 THEN top ELSE other] :
        n \in HolderCounts, top \in TopQuantities, other \in OtherQuantities }

AnalyzeHoldersCall ==
    \E holders \in HolderInputs, totalSupply \in SupplyArgs :
        AnalyzeHolderConcentration(holders, totalSupply)

NextHolders == AnalyzeHoldersCall

SpecHolders == Init /\ [][NextHolders]_vars

(***************************************************************************)
(* SpecConcurrent: two writers send updateRiskScore for the same token at  *)
(* the same time. The transactions wait in the pool and the chain mines    *)
(* them one by one in any order that keeps each sender's own order; a      *)
(* mined transaction runs to its end before the next one starts.           *)
(***************************************************************************)
MaxTxs == 3

ConcurrentSenders == {Deployer, AgentAcct}

ConcurrentScoreArgs == { <<75, 60, 80, 30>>, <<85, 30, 30, 50>>, <<50, 50, 50, 101>> }

\* the transactions sent so far
Submitted == Len(mined) + Cardinality(DOMAIN mempool)

SubmitUpdate ==
    \E sender \in ConcurrentSenders, s \in ConcurrentScoreArgs :
        /\ Submitted < MaxTxs
        /\ mempool' = ((Submitted + 1) :>
                          [sender |-> sender, tokenAddress |-> DUMMY_TOKEN, scores |-> s])
                      @@ mempool
        /\ UNCHANGED <<regVars, now, emitted, lastCall, everAuthorized, offChainVars,
                       mined, publish>>

MineUpdate ==
    \E id \in DOMAIN mempool :
        LET tx == mempool[id]
        IN  /\ \A other \in DOMAIN mempool :
                  mempool[other].sender = tx.sender => id <= other
            /\ updateRiskScore(tx.sender, tx.tokenAddress, tx.scores[1], tx.scores[2],
                               tx.scores[3], tx.scores[4])
            /\ mempool' = [j \in DOMAIN mempool \ {id} |-> mempool[j]]
            /\ mined' = Append(mined, [id |-> id, tx |-> tx, status |-> lastCall'.status])
            /\ UNCHANGED publish

RegisterConcurrentToken ==
    registerToken(Deployer, DUMMY_TOKEN) /\ UNCHANGED clientVars

AuthorizeConcurrentAgent ==
    authorizeAgent(Deployer, AgentAcct) /\ UNCHANGED clientVars

NextConcurrent ==
    \/ RegisterConcurrentToken
    \/ AuthorizeConcurrentAgent
    \/ SubmitUpdate
    \/ MineUpdate

SpecConcurrent == Init /\ [][NextConcurrent]_vars

(***************************************************************************)
(* SpecPublish: one agent publishing reports for DUMMY_TOKEN, run after    *)
(* run, while the owner authorizes or revokes it or registers the token    *)
(***************************************************************************)
\* <<overallRisk, honeypotScore, rugPullScore, liquidityScore>> of a report
PublishReports == { <<75, 60, 80, 30>>, <<85, 30, 30, 50>> }

PublishStartCall ==
    \E p \in DOMAIN publish, report \in PublishReports, connected \in BOOLEAN :
        PublishStart(p, DUMMY_TOKEN, report, connected)

PublishCheckStep == \E p \in DOMAIN publish : PublishCheck(p)

PublishRegisterStep == \E p \in DOMAIN publish : PublishRegister(p)

PublishUpdateStep == \E p \in DOMAIN publish : PublishUpdate(p)

PublishConnectionErrorStep == \E p \in DOMAIN publish : PublishConnectionError(p)

AuthorizePublisher ==
    authorizeAgent(Deployer, AgentAcct) /\ UNCHANGED clientVars

RevokePublisher ==
    revokeAgent(Deployer, AgentAcct) /\ UNCHANGED clientVars

OwnerRegisters ==
    registerToken(Deployer, DUMMY_TOKEN) /\ UNCHANGED clientVars

NextPublish ==
    \/ PublishStartCall
    \/ PublishCheckStep
    \/ PublishRegisterStep
    \/ PublishUpdateStep
    \/ PublishConnectionErrorStep
    \/ AuthorizePublisher
    \/ RevokePublisher
    \/ OwnerRegisters

SpecPublish == Init /\ [][NextPublish]_vars

(***************************************************************************)
(* SpecRace: two agents, the owner's and one the owner has authorized,     *)
(* publish reports for DUMMY_TOKEN at the same time over a network that    *)
(* delivers every call and every receipt; the steps of their runs          *)
(* interleave freely                                                       *)
(***************************************************************************)
Publishers == {Deployer, AgentAcct}

\* the registry after authorizeAgent(agent.address) by the owner, one agent
\* process per publisher
InitRace ==
    /\ owner = Deployer
    /\ authorizedAgents = [a \in Addresses |-> a \in Publishers]
    /\ nextTokenId = 0
    /\ riskRegistry = EmptyMap
    /\ tokenToNftId = [a \in TokenArgs |-> 0]
    /\ isRegistered = [a \in TokenArgs |-> FALSE]
    /\ nftOwners = EmptyMap
    /\ now = 1
    /\ emitted = << [name |-> "AgentAuthorized", agent |-> AgentAcct] >>
    /\ lastCall = Call("authorizeAgent", Deployer, AgentAcct, NoScores, OK, NoReturn)
    /\ everAuthorized = Publishers
    /\ mempool = EmptyMap
    /\ mined = <<>>
    /\ publish = [p \in Publishers |-> NoPublish]
    /\ InitScans("agent")
    /\ score = 0
    /\ levels = NotEvaluated
    /\ analysis = NoAnalysis

\* each publisher has its own report
RaceReport(p) == IF p = Deployer THEN <<75, 60, 80, 30>> ELSE <<85, 30, 30, 50>>

RaceStart ==
    \E p \in Publishers : PublishStart(p, DUMMY_TOKEN, RaceReport(p), TRUE)

RaceCheck == \E p \in Publishers : PublishCheck(p)

RaceRegister == \E p \in Publishers : PublishRegisterWith(p, TRUE)

RaceUpdate == \E p \in Publishers : PublishUpdateWith(p, TRUE)

NextRace ==
    \/ RaceStart
    \/ RaceCheck
    \/ RaceRegister
    \/ RaceUpdate

SpecRace == InitRace /\ [][NextRace]_vars

(***************************************************************************)
(* SpecScan: one aggregator (the agent, the server or the older agent)     *)
(* serving scan requests for well-formed and malformed addresses, each     *)
(* detector fulfilling or rejecting in any order                           *)
(***************************************************************************)
Repeat(c, n) == [i \in 1..n |-> c]

String(chars) == [isString |-> TRUE, chars |-> chars]

\* the demo address of agent/index.js, lower-cased
LowerCaseAddress == String(<<"0", "x">> \o Repeat("a", 40))
MixedCaseAddress == String(<<"0", "x">> \o Repeat("F", 20) \o Repeat("9", 19) \o <<"c">>)
ShortAddress == String(<<"0", "x">> \o Repeat("a", 39))
LongAddress == String(<<"0", "x">> \o Repeat("a", 41))
NonHexAddress == String(<<"0", "x">> \o Repeat("a", 39) \o <<"g">>)
UpperPrefixAddress == String(<<"0", "X">> \o Repeat("a", 40))
NoPrefixAddress == String(Repeat("a", 42))
NotAString == [isString |-> FALSE, chars |-> <<>>]

AddressArgs ==
    {LowerCaseAddress, MixedCaseAddress, ShortAddress, LongAddress, NonHexAddress,
     UpperPrefixAddress, NoPrefixAddress, NotAString}

\* what a detector that fulfils reports
DetectorValue(d) ==
    CASE d = "contract" -> [overallRisk |-> 80, honeypotScore |-> 90, rugPullScore |-> 70,
                            detected |-> {"hidden_owner", "has_sell_tax"}]
      [] d = "liquidity" -> [liquidityHealth |-> 20]
      [] d = "creator" -> [riskScore |-> 45]
      [] d = "flash" -> [flashLoanRisk |-> 40]
      [] d = "mev" -> [mevRisk |-> 35]

InitScan ==
    /\ InitRegistry
    /\ InitClients
    /\ \E impl \in {"agent", "server", "legacy"} : InitScans(impl)
    /\ score = 0
    /\ levels = NotEvaluated
    /\ analysis = NoAnalysis

\* the fairness the scheduling gives: a promise that has been started settles,
\* and the event loop runs the continuation of an await whose promise resolved
Settles(d) == DetectorSettles(d, "fulfilled", DetectorValue(d)) \/ DetectorSettles(d, "rejected", NoValue)

\* a route parameter is always a string
ScanRequestCall ==
    \E address \in AddressArgs :
        /\ scan.impl = "server" => address.isString
        /\ ScanRequest(address)

DetectorFulfils == \E d \in Detectors : DetectorSettles(d, "fulfilled", DetectorValue(d))

DetectorRejects == \E d \in Detectors : DetectorSettles(d, "rejected", NoValue)

NextScan ==
    \/ ScanRequestCall
    \/ DetectorFulfils
    \/ DetectorRejects
    \/ ScanCombine
    \/ ScanShortCircuit

SpecScan == InitScan /\ [][NextScan]_vars

SpecScanLive ==
    /\ InitScan
    /\ [][NextScan]_vars
    /\ \A d \in Detectors : WF_vars(Settles(d))
    /\ WF_vars(ScanCombine)
    /\ WF_vars(ScanShortCircuit)

(***************************************************************************)
(* SpecCombine: the agent or the server has scanned an address up to       *)
(* MaxEarlier times before; then a scan of the same or of another address  *)
(* is followed step by step, its detectors settling in any order           *)
(***************************************************************************)
InitCombine ==
    /\ InitRegistry
    /\ InitClients
    /\ \E impl \in {"agent", "server"} : InitScans(impl)
    /\ score = 0
    /\ levels = NotEvaluated
    /\ analysis = NoAnalysis

\* the detectors that failed in an earlier scan: none, one, all
EarlierRejections == { {}, {"contract"}, Detectors }

EarlierScanCall ==
    \E rejected \in EarlierRejections :
        EarlierScan(LowerCaseAddress,
                    [d \in Detectors |-> IF d \in rejected THEN "rejected" ELSE "fulfilled"],
                    [d \in Detectors |-> IF d \in rejected THEN NoValue ELSE DetectorValue(d)])

CombineRequestCall ==
    \E address \in {LowerCaseAddress, MixedCaseAddress} : ScanRequest(address)

NextCombine ==
    \/ EarlierScanCall
    \/ CombineRequestCall
    \/ DetectorFulfils
    \/ DetectorRejects
    \/ ScanCombine

SpecCombine == InitCombine /\ [][NextCombine]_vars

(***************************************************************************)
(* SpecAggregate: the combiner of the agent and of the server on detector  *)
(* reports whose sub-scores take the ends and the middle of 0..100, and on *)
(* contract reports with every combination of ownership and tax fields     *)
(***************************************************************************)
SubScoreArgs == {0, 36, 100}

OwnershipFields ==
    {"hidden_owner", "can_take_back_ownership", "owner_change_balance",
     "is_ownership_renounced"}

TaxFields == {"tax_modifiable", "has_buy_tax", "has_sell_tax", "high_tax_risk", "is_buy_back"}

DetectorReports(overallRisk, honeypotScore, rugPullScore, creatorRisk, liquidityHealth, detected) ==
    [d \in Detectors |->
        CASE d = "contract" -> [overallRisk |-> overallRisk, honeypotScore |-> honeypotScore,
                                rugPullScore |-> rugPullScore, detected |-> detected]
          [] d = "liquidity" -> [liquidityHealth |-> liquidityHealth]
          [] d = "creator" -> [riskScore |-> creatorRisk]
          [] d = "flash" -> [flashLoanRisk |-> 40]
          [] d = "mev" -> [mevRisk |-> 35]]

AggregateInputs ==
    { DetectorReports(o, h, r, c, l, {}) :
        o \in {0, 100}, h \in SubScoreArgs, r \in SubScoreArgs, c \in SubScoreArgs,
        l \in SubScoreArgs }
    \cup { DetectorReports(50, 50, 50, 50, 50, own \cup tax) :
             own \in SUBSET OwnershipFields, tax \in SUBSET TaxFields }

AggregateCall ==
    \E impl \in {"agent", "server"}, in \in AggregateInputs :
        Aggregate(impl, LowerCaseAddress, in)

NextAggregate == AggregateCall

SpecAggregate == Init /\ [][NextAggregate]_vars

(***************************************************************************)
(* SpecMev: MEVDetector.analyze on every combination of selector groups,   *)
(* with each of the two bytecode fetches succeeding or throwing            *)
(***************************************************************************)
CodeFetches ==
    { CodeFetch(FALSE, code, pairFetchFailed) :
        code \in SUBSET MevMarkers, pairFetchFailed \in BOOLEAN }
    \cup {CodeFetch(TRUE, {}, FALSE)}

MevAnalyzeCall == \E fetch \in CodeFetches : MevAnalyze(fetch)

NextMev == MevAnalyzeCall

SpecMev == Init /\ [][NextMev]_vars

(***************************************************************************)
(* SpecCreator: profileCreator with every lookup failing or answering, on  *)
(* wallet ages and deployment counts around the thresholds of the code     *)
(***************************************************************************)
CreatorAnswers ==
    {CreatorAnswer(TRUE, FALSE), CreatorAnswer(FALSE, FALSE), CreatorAnswer(FALSE, TRUE)}

DeployedAnswers ==
    {DeployedAnswer(TRUE, 0)} \cup { DeployedAnswer(FALSE, n) : n \in {0, 6, 11, 21} }

WalletAnswers ==
    {WalletAnswer(TRUE, FALSE, 0, FALSE, 0)}
    \cup { WalletAnswer(FALSE, TRUE, b, TRUE, age) :
             b \in {9, 10, 5000}, age \in {0, 6, 7, 29, 30, 365, 366} }
    \cup { WalletAnswer(FALSE, FALSE, 0, FALSE, 0), WalletAnswer(FALSE, TRUE, 5000, FALSE, 0),
           WalletAnswer(FALSE, FALSE, 0, TRUE, 400) }

ProfileCreatorCall ==
    \E c \in CreatorAnswers, d \in DeployedAnswers, w \in WalletAnswers :
        ProfileCreator(c, d, w)

NextCreator == ProfileCreatorCall

SpecCreator == Init /\ [][NextCreator]_vars

(***************************************************************************)
(* SpecScanRange: one scanToken over sub-scores at the ends of 0..100 with *)
(* every combination of rejected detectors, and the deployer's wallet      *)
(* registering the token and sending the report's scores                   *)
(***************************************************************************)
EndScores == {0, 100}

ScanRangeValues ==
    { DetectorReports(o, h, r, c, l, {}) :
        o \in EndScores, h \in EndScores, r \in EndScores, c \in EndScores, l \in EndScores }

ScanTokenCall ==
    \E tasks \in [Detectors -> {"fulfilled", "rejected"}], values \in ScanRangeValues :
        ScanToken(DUMMY_TOKEN, tasks, values)

RegisterScanned == registerToken(Deployer, DUMMY_TOKEN) /\ UNCHANGED clientVars

PublishScanned ==
    /\ analysis.op = "scanToken"
    /\ updateRiskScore(Deployer, DUMMY_TOKEN, analysis.result.overallRisk,
                       analysis.result.honeypotScore, analysis.result.rugPullScore,
                       analysis.result.liquidityScore)
    /\ UNCHANGED clientVars

NextScanRange ==
    \/ ScanTokenCall
    \/ RegisterScanned
    \/ PublishScanned

SpecScanRange == Init /\ [][NextScanRange]_vars

(***************************************************************************)
(* SpecOracle: the oracle classification of bytecode holding any of five   *)
(* spot-price selectors, three TWAP selectors and two selectors the        *)
(* detector does not look for                                              *)
(***************************************************************************)
OracleSignatures ==
    {<<"getReserves", "()">>, <<"balanceOf", "(address)">>, <<"slot0", "()">>,
     <<"quote", "(address)">>, <<"getAmountsOut", "()">>,
     <<"observe", "()">>, <<"consult", "()">>, <<"twap", "()">>,
     <<"observe", "(address)">>, <<"transfer", "(address,uint256)">>}

AnalyzeOracleCall == \E code \in SUBSET OracleSignatures : AnalyzeOraclePatterns(code)

NextOracle == AnalyzeOracleCall

SpecOracle == Init /\ [][NextOracle]_vars

(***************************************************************************)
(* SpecStats: the server answers more scan requests than its history       *)
(* holds; the first MaxVaried completed scans find a threat or a harmless  *)
(* token, the later ones a harmless token; any request may have a          *)
(* malformed address or fail                                               *)
(***************************************************************************)
MaxServerScans == 103

MaxVaried == 5

InitStats ==
    /\ InitRegistry
    /\ InitClients
    /\ InitScans("server")
    /\ score = 0
    /\ levels = NotEvaluated
    /\ analysis = NoAnalysis

HarmlessValues == DetectorReports(0, 0, 0, 0, 100, {})

ThreatValues == DetectorReports(100, 100, 100, 100, 36, {})

ServerScanCall ==
    \E address \in {LowerCaseAddress, ShortAddress}, throws \in BOOLEAN,
       values \in (IF stats.totalScans < MaxVaried THEN {HarmlessValues, ThreatValues}
                   ELSE {HarmlessValues}) :
        /\ stats.totalScans < MaxServerScans
        /\ ServerScanRoute(address, [d \in Detectors |-> "fulfilled"], values, throws)

NextStats == ServerScanCall

SpecStats == InitStats /\ [][NextStats]_vars

(***************************************************************************)
(* Properties                                                              *)
(***************************************************************************)
NotAuthorized == "VibeGuard: Not authorized"
AlreadyRegistered == "VibeGuard: Already registered"
ScoreOutOfRange == "VibeGuard: Score out of range"

IsWrite(call) == call.op \in {"registerToken", "updateRiskScore"}

\* the accounts the registry lets write
IsWriter(account) == authorizedAgents[account] \/ account = owner

\* authorized once, revoked since, and not the owner
IsRevoked(account) ==
    account \in everAuthorized /\ ~authorizedAgents[account] /\ account # owner

\* the record stored for a registered token
RecordOf(tokenAddress) == riskRegistry[tokenToNftId[tokenAddress]]

RegisteredTokens == {a \in TokenArgs : isRegistered[a]}

NothingWritten == UNCHANGED regVars /\ emitted' = <<>>

\* the bands as the specification states them
RiskBand(s) ==
    CASE s \in 0..20 -> "SAFE"
      [] s \in 21..40 -> "LOW"
      [] s \in 41..60 -> "MEDIUM"
      [] s \in 61..80 -> "HIGH"
      [] OTHER -> "CRITICAL"

\* C1 (as stated): once a token is registered, every registerToken for it fails
\* with "Already registered", whoever calls, and writes nothing.
C1_AlwaysAlreadyRegistered ==
    [][ (lastCall'.op = "registerToken" /\ isRegistered[lastCall'.target])
        => (lastCall'.status = AlreadyRegistered /\ NothingWritten) ]_vars

\* C1 (amended): once a token is registered, every registerToken for it fails and
\* writes nothing; the reason is "Already registered" for a caller that passes
\* onlyAuthorizedAgent and "Not authorized" for any other caller.
C1_RegisterOneShot ==
    [][ (lastCall'.op = "registerToken" /\ isRegistered[lastCall'.target])
        => /\ lastCall'.status = IF IsWriter(lastCall'.sender)
                                 THEN AlreadyRegistered ELSE NotAuthorized
           /\ NothingWritten ]_vars

C1_Witness ==
    /\ lastCall.op = "registerToken"
    /\ isRegistered[lastCall.target]
    /\ lastCall.sender = AgentAcct
    /\ authorizedAgents[AgentAcct]
    /\ lastCall.status = AlreadyRegistered

\* C2: registerToken and updateRiskScore sent by an account that is neither the
\* owner nor flagged in authorizedAgents (never authorized, or revoked) are
\* rejected with "Not authorized", write nothing and emit nothing.
C2_UnauthorizedWriteRejected ==
    [][ (IsWrite(lastCall') /\ ~IsWriter(lastCall'.sender))
        => (lastCall'.status = NotAuthorized /\ NothingWritten) ]_vars

C2_Witness ==
    /\ lastCall.op = "updateRiskScore"
    /\ IsRevoked(lastCall.sender)
    /\ isRegistered[lastCall.target]
    /\ \A i \in 1..4 : lastCall.scores[i] <= 100
    /\ lastCall.status = NotAuthorized

\* C3 (as stated): a registerToken or updateRiskScore that follows the owner's
\* pause() is rejected.
C3_PauseBlocksWrites ==
    [][ (lastCall.op = "pause" /\ lastCall.sender = owner /\ IsWrite(lastCall'))
        => lastCall'.status # OK ]_vars

\* C4: updateRiskScore on a registered token by an authorized caller with at
\* least one of the four scores above 100 is rejected with "Score out of range"
\* and leaves the record as it was.
C4_ScoreOutOfRangeRejected ==
    [][ ( /\ lastCall'.op = "updateRiskScore"
          /\ IsWriter(lastCall'.sender)
          /\ isRegistered[lastCall'.target]
          /\ \E i \in 1..4 : lastCall'.scores[i] > 100 )
        => (lastCall'.status = ScoreOutOfRange /\ NothingWritten) ]_vars

C4_Witness ==
    /\ lastCall.op = "updateRiskScore"
    /\ lastCall.scores = <<79, 69, 69, 101>>
    /\ lastCall.status = ScoreOutOfRange
    /\ RecordOf(lastCall.target).riskLevel # "PENDING"

\* C5: a registerToken for a registered token, an updateRiskScore for a token
\* that was never registered and an updateRiskScore with a score above 100 all
\* fail, and a registerToken or updateRiskScore that fails leaves the records,
\* tokenToNftId, isRegistered, the id counter and the event log as they were.
C5_RejectedWriteAtomic ==
    [][ /\ ( \/ (lastCall'.op = "registerToken" /\ isRegistered[lastCall'.target])
             \/ (lastCall'.op = "updateRiskScore" /\ ~isRegistered[lastCall'.target])
             \/ (lastCall'.op = "updateRiskScore"
                 /\ \E i \in 1..4 : lastCall'.scores[i] > 100) )
           => lastCall'.status # OK
        /\ (IsWrite(lastCall') /\ lastCall'.status # OK)
           => ( /\ riskRegistry' = riskRegistry
                /\ tokenToNftId' = tokenToNftId
                /\ isRegistered' = isRegistered
                /\ nextTokenId' = nextTokenId
                /\ emitted' = <<>> ) ]_vars

C5_Witness ==
    /\ lastCall.op = "updateRiskScore"
    /\ lastCall.status = "VibeGuard: Token not registered"
    /\ ~isRegistered[lastCall.target]
    /\ nextTokenId = 1
    /\ riskRegistry[0].riskLevel # "PENDING"

\* C6: a successful updateRiskScore(a, r, h, g, l) stores for a exactly the record
\* (a, r, h, g, l, now, active, band of r), whatever the record held before;
\* it appends exactly one RiskScoreUpdated and leaves every other record alone.
C6_UpdateReplacesRecord ==
    [][ (lastCall'.op = "updateRiskScore" /\ lastCall'.status = OK)
        => LET a == lastCall'.target
               id == tokenToNftId[a]
               s == lastCall'.scores
           IN  /\ riskRegistry'[id] =
                    [tokenAddress |-> a, riskScore |-> s[1], honeypotScore |-> s[2],
                     rugPullScore |-> s[3], liquidityScore |-> s[4],
                     lastUpdated |-> now, isActive |-> TRUE,
                     riskLevel |-> RiskBand(s[1])]
               /\ DOMAIN riskRegistry' = DOMAIN riskRegistry
               /\ \A j \in DOMAIN riskRegistry \ {id} : riskRegistry'[j] = riskRegistry[j]
               /\ Len(SelectSeq(emitted', LAMBDA e : e.name = "RiskScoreUpdated")) = 1
       ]_vars

C6_Witness ==
    /\ lastCall.op = "updateRiskScore"
    /\ lastCall.status = OK
    /\ lastCall.target = DUMMY_TOKEN
    /\ lastCall.scores = <<79, 70, 69, 100>>
    /\ RecordOf(DUMMY_TOKEN).liquidityScore = 100
    /\ now = 2
    /\ RecordOf(DUMMY_TOKEN).lastUpdated = 2
    /\ isRegistered[DUMMY_TOKEN_2]
    /\ RecordOf(DUMMY_TOKEN_2).riskScore = 85
    /\ RecordOf(DUMMY_TOKEN_2).lastUpdated = 1

\* C7 (as stated): the riskLevel stored for a registered token is the band of
\* its stored riskScore.
C7_LevelIsBandOfScore ==
    \A a \in RegisteredTokens : RecordOf(a).riskLevel = RiskBand(RecordOf(a).riskScore)

\* C7 (amended): the riskLevel stored for a registered token is "PENDING", the
\* level registerToken stores together with riskScore 50, or else the band of
\* the stored riskScore.
C7_LevelIsPendingOrBand ==
    \A a \in RegisteredTokens :
        \/ RecordOf(a).riskLevel = "PENDING" /\ RecordOf(a).riskScore = 50
        \/ RecordOf(a).riskLevel = RiskBand(RecordOf(a).riskScore)

C7_Witness ==
    /\ isRegistered[DUMMY_TOKEN]
    /\ RecordOf(DUMMY_TOKEN).riskScore = 60
    /\ RecordOf(DUMMY_TOKEN).riskLevel = "MEDIUM"
    /\ isRegistered[DUMMY_TOKEN_2]
    /\ RecordOf(DUMMY_TOKEN_2).riskLevel = "PENDING"

\* C8: on every score in 0..100 the registry, the agent, the contract analyzer
\* and the server return the same level, and it is the band of the score.
C8_LevelMappingsAgree ==
    (levels # NotEvaluated /\ score \in 0..100)
    => /\ levels.registry = RiskBand(score)
       /\ levels.agent = levels.registry
       /\ levels.analyzer = levels.registry
       /\ levels.server = levels.registry

C8_Witness ==
    /\ score = 80
    /\ levels.registry = "HIGH"
    /\ levels.server = "HIGH"

\* C9: the four scores of every registered token's record lie in 0..100.
C9_ScoresInRange ==
    \A a \in RegisteredTokens :
        /\ RecordOf(a).riskScore \in 0..100
        /\ RecordOf(a).honeypotScore \in 0..100
        /\ RecordOf(a).rugPullScore \in 0..100
        /\ RecordOf(a).liquidityScore \in 0..100

C9_Witness ==
    /\ isRegistered[DUMMY_TOKEN]
    /\ RecordOf(DUMMY_TOKEN).riskScore = 100
    /\ lastCall.op = "updateRiskScore"
    /\ lastCall.scores[1] = MaxUint8
    /\ lastCall.status = ScoreOutOfRange

\* the alert the specification prescribes for an update
ExpectedAlertTypes(riskScore, honeypotScore, rugPullScore) ==
    IF riskScore >= 80 THEN <<"CRITICAL_RISK">>
    ELSE IF honeypotScore >= 70 THEN <<"HONEYPOT_WARNING">>
    ELSE IF rugPullScore >= 70 THEN <<"RUG_PULL_WARNING">>
    ELSE <<>>

\* C10: a successful updateRiskScore emits RiskScoreUpdated first and then at
\* most one AlertTriggered: CRITICAL_RISK if riskScore >= 80, else
\* HONEYPOT_WARNING if honeypotScore >= 70, else RUG_PULL_WARNING if
\* rugPullScore >= 70, else none.
C10_OneAlertFirstMatch ==
    [][ (lastCall'.op = "updateRiskScore" /\ lastCall'.status = OK)
        => LET s == lastCall'.scores
               expected == ExpectedAlertTypes(s[1], s[2], s[3])
           IN  /\ Len(emitted') = 1 + Len(expected)
               /\ emitted'[1].name = "RiskScoreUpdated"
               /\ \A i \in 1..Len(expected) :
                    /\ emitted'[1 + i].name = "AlertTriggered"
                    /\ emitted'[1 + i].alertType = expected[i]
                    /\ emitted'[1 + i].tokenAddress = lastCall'.target
       ]_vars

C10_Witness ==
    /\ lastCall.op = "updateRiskScore"
    /\ lastCall.status = OK
    /\ lastCall.scores = <<80, 70, 70, 100>>
    /\ Len(emitted) = 2
    /\ emitted[2].alertType = "CRITICAL_RISK"

\* C11: isSafe(a, maxRisk) never fails and writes nothing; for every limit it
\* returns false when a is not registered, and otherwise true exactly when the
\* stored riskScore is at most maxRisk.
C11_IsSafeTotal ==
    [][lastCall'.op = "isSafe" =>
         LET a == lastCall'.target
             maxRisk == lastCall'.scores[1]
         IN  /\ lastCall'.status = OK
             /\ UNCHANGED regVars
             /\ ~isRegistered[a] => lastCall'.ret = <<FALSE>>
             /\ isRegistered[a] =>
                    lastCall'.ret = <<RecordOf(a).riskScore <= maxRisk>>]_vars

\* isSafe answered false for a token nobody registered, under the largest limit,
\* while another token's record sits in the slot the unset id points at
C11_Witness ==
    /\ lastCall.op = "isSafe"
    /\ lastCall.target = DUMMY_TOKEN_2
    /\ lastCall.scores = <<MaxUint8>>
    /\ lastCall.ret = <<FALSE>>
    /\ ~isRegistered[DUMMY_TOKEN_2]
    /\ isRegistered[DUMMY_TOKEN]
    /\ tokenToNftId[DUMMY_TOKEN_2] = tokenToNftId[DUMMY_TOKEN]

\* the number of events of one name in a transaction's log
CountEvents(log, name) == Cardinality({i \in DOMAIN log : log[i].name = name})

IsOkCall(call, op) == call.op = op /\ call.status = OK

\* C12: a successful registerToken(a) creates the record riskScore 50,
\* honeypotScore 0, rugPullScore 0, liquidityScore 50, riskLevel "PENDING",
\* isActive, lastUpdated = now, emits exactly one TokenRegistered and returns
\* the new record's id; the record keeps these values until the first
\* successful updateRiskScore(a, ...).
C12_RegisterCreatesPending ==
    [][/\ IsOkCall(lastCall', "registerToken") =>
            LET a == lastCall'.target
                id == lastCall'.ret[1]
            IN  /\ ~isRegistered[a] /\ isRegistered'[a]
                /\ id \notin DOMAIN riskRegistry
                /\ tokenToNftId'[a] = id
                /\ riskRegistry'[id] =
                       [tokenAddress |-> a, riskScore |-> 50, honeypotScore |-> 0,
                        rugPullScore |-> 0, liquidityScore |-> 50,
                        lastUpdated |-> now', isActive |-> TRUE,
                        riskLevel |-> "PENDING"]
                /\ CountEvents(emitted', "TokenRegistered") = 1
                /\ \E i \in DOMAIN emitted' :
                       emitted'[i] = [name |-> "TokenRegistered", tokenId |-> id,
                                      tokenAddress |-> a, timestamp |-> now']
       /\ \A a \in TokenArgs :
            (/\ isRegistered[a]
             /\ RecordOf(a).riskLevel = "PENDING"
             /\ ~(IsOkCall(lastCall', "updateRiskScore") /\ lastCall'.target = a))
            => /\ isRegistered'[a]
               /\ riskRegistry'[tokenToNftId'[a]] = RecordOf(a)]_vars

\* the second registration, at a later time, returned id 1 while the first
\* token's record kept its initial values through it
C12_Witness ==
    /\ IsOkCall(lastCall, "registerToken")
    /\ lastCall.target = DUMMY_TOKEN_2
    /\ lastCall.ret = <<1>>
    /\ now = 2
    /\ RecordOf(DUMMY_TOKEN_2).lastUpdated = 2
    /\ isRegistered[DUMMY_TOKEN]
    /\ RecordOf(DUMMY_TOKEN).riskLevel = "PENDING"
    /\ RecordOf(DUMMY_TOKEN).lastUpdated = 1

\* the ids handed out so far
TokenIds == 0..(totalTokens - 1)

\* C13: the registered addresses and the ids 0..totalTokens-1 correspond one
\* to one, the record stored at an id names the address that owns the id, ids
\* are handed out in increasing order and never change hands, and totalTokens
\* counts the successful registerToken calls.
C13_IdsOneToOne ==
    [][/\ Cardinality(RegisteredTokens) = totalTokens
       /\ DOMAIN riskRegistry = TokenIds
       /\ \A a \in RegisteredTokens :
            /\ tokenToNftId[a] \in TokenIds
            /\ RecordOf(a).tokenAddress = a
       /\ \A a, b \in RegisteredTokens : tokenToNftId[a] = tokenToNftId[b] => a = b
       /\ \A id \in TokenIds :
            \E a \in RegisteredTokens : tokenToNftId[a] = id
       /\ \A a \in RegisteredTokens :
            a \in RegisteredTokens' /\ tokenToNftId'[a] = tokenToNftId[a]
       /\ IF IsOkCall(lastCall', "registerToken") /\ ~isRegistered[lastCall'.target]
          THEN /\ totalTokens' = totalTokens + 1
               /\ lastCall'.ret = <<totalTokens>>
               /\ tokenToNftId'[lastCall'.target] = totalTokens
               /\ RegisteredTokens' = RegisteredTokens \cup {lastCall'.target}
          ELSE /\ totalTokens' = totalTokens
               /\ RegisteredTokens' = RegisteredTokens]_vars

\* two tokens registered by different writers, in the order DUMMY_TOKEN_2 then
\* DUMMY_TOKEN, with rejected registrations in between
C13_Witness ==
    /\ totalTokens = 2
    /\ tokenToNftId[DUMMY_TOKEN_2] = 0
    /\ tokenToNftId[DUMMY_TOKEN] = 1
    /\ RecordOf(DUMMY_TOKEN).tokenAddress = DUMMY_TOKEN
    /\ lastCall.op = "registerToken"
    /\ lastCall.status = AlreadyRegistered

\* the stage of a token's lifecycle: 0 Unregistered, 1 Pending, 2 Scored
Stage(a) ==
    IF ~isRegistered[a] THEN 0
    ELSE IF RecordOf(a).riskLevel = "PENDING" THEN 1
    ELSE 2

\* C14: a token's lifecycle only moves forward, Unregistered -> Pending ->
\* Scored, one stage at a time: a successful registerToken is the only way
\* into Pending, a successful updateRiskScore the only way into Scored, a
\* registered token stays registered and "PENDING" never comes back.
C14_LifecycleForward ==
    [][\A a \in TokenArgs :
         /\ Stage(a)' \in {Stage(a), Stage(a) + 1}
         /\ Stage(a)' <= 2
         /\ (Stage(a) = 0 /\ Stage(a)' = 1) =>
                IsOkCall(lastCall', "registerToken") /\ lastCall'.target = a
         /\ (Stage(a) = 1 /\ Stage(a)' = 2) =>
                IsOkCall(lastCall', "updateRiskScore") /\ lastCall'.target = a
         /\ isRegistered[a] => isRegistered'[a]]_vars

\* a scored token that a writer just tried to register again, next to a
\* pending one
C14_Witness ==
    /\ Stage(DUMMY_TOKEN) = 2
    /\ Stage(DUMMY_TOKEN_2) = 1
    /\ lastCall.op = "registerToken"
    /\ lastCall.target = DUMMY_TOKEN
    /\ lastCall.sender = Deployer
    /\ lastCall.status = AlreadyRegistered

IsOkEntry(e) == e.status = OK

\* the successful updates in the order the chain ran them
OkUpdates == SelectSeq(mined, IsOkEntry)

\* the stored record is, field by field, the record of the last successful update
LastWriterWins ==
    isRegistered[DUMMY_TOKEN] =>
        IF OkUpdates = <<>>
        THEN RecordOf(DUMMY_TOKEN).riskLevel = "PENDING"
        ELSE LET s == OkUpdates[Len(OkUpdates)].tx.scores
                 r == RecordOf(DUMMY_TOKEN)
             IN  /\ <<r.riskScore, r.honeypotScore, r.rugPullScore, r.liquidityScore>> = s
                 /\ r.riskLevel = RiskBand(s[1])
                 /\ r.tokenAddress = DUMMY_TOKEN

\* C15: updateRiskScore calls sent concurrently for one token behave as one
\* sequential history: at every point, and so once all are mined, the record
\* holds the whole four-score tuple and the matching level of one call, the
\* last successful one in the order mined, never fields of different calls;
\* each successful call logs exactly one RiskScoreUpdated, a rejected one none.
C15_SerialHistory ==
    [][/\ LastWriterWins
       /\ LastWriterWins'
       /\ mined' # mined =>
            /\ Len(mined') = Len(mined) + 1
            /\ CountEvents(emitted', "RiskScoreUpdated")
                   = IF mined'[Len(mined')].status = OK THEN 1 ELSE 0]_vars

\* three concurrent transactions, all mined; two of them succeeded with
\* different tuples and were mined in the order opposite to their submission
C15_Witness ==
    /\ mempool = EmptyMap
    /\ Len(mined) = MaxTxs
    /\ \E i, j \in DOMAIN mined :
         /\ i < j
         /\ mined[i].id > mined[j].id
         /\ mined[i].status = OK
         /\ mined[j].status = OK
         /\ mined[i].tx.scores # mined[j].tx.scores
         /\ mined[i].tx.sender # mined[j].tx.sender
    /\ \E k \in DOMAIN mined : mined[k].status # OK

\* the four scores of a stored record, in the order of a report
ScoresOf(r) == <<r.riskScore, r.honeypotScore, r.rugPullScore, r.liquidityScore>>

InSeq(x, seq) == \E i \in DOMAIN seq : seq[i] = x

\* C16: publishOnChain is idempotent under retry. A run that reads
\* isRegistered = true sends no registerToken and goes on to updateRiskScore;
\* a run that returns a transaction hash, a retry after a run that failed
\* between registration and update included, leaves the token registered
\* exactly once and holding the report's four scores.
C16_PublishIdempotent ==
    [][\A p \in DOMAIN publish :
         LET run == publish[p]
             after == publish'[p]
             t == run.tokenAddress
         IN  /\ (run.pc = "check" /\ after.pc # "check" /\ isRegistered[t]
                 /\ lastCall'.status = OK)
                => /\ after.pc = "update"
                   /\ after.found
                   /\ UNCHANGED regVars
             /\ after.found => ~InSeq("registerToken", after.sent)
             /\ (run.pc = "update" /\ after.pc = "returned" /\ after.txHash = TxHash)
                => /\ isRegistered'[t]
                   /\ totalTokens' = 1
                   /\ Cardinality(DOMAIN riskRegistry') = 1
                   /\ ScoresOf(riskRegistry'[tokenToNftId'[t]]) = run.report
                   /\ riskRegistry'[tokenToNftId'[t]].tokenAddress = t]_vars

\* the retry: the run before registered the token and then failed, this run
\* found it registered, sent updateRiskScore alone and returned its hash
C16_Witness ==
    LET run == publish[AgentAcct]
    IN  /\ run.pc = "returned"
        /\ run.txHash = TxHash
        /\ run.found
        /\ run.sent = <<"updateRiskScore">>
        /\ run.prev.tokenAddress = run.tokenAddress
        /\ run.prev.report = run.report
        /\ run.prev.sent = <<"registerToken">>
        /\ run.prev.txHash = Null
        /\ totalTokens = 1
        /\ ScoresOf(RecordOf(run.tokenAddress)) = run.report

\* C17: a publication failure never invalidates the report. Whenever the
\* isRegistered read, registerToken or updateRiskScore fails, or the agent has
\* no contract connection, publishOnChain returns null and throws nothing,
\* the failed step writes nothing to the registry, and scanAndPublish returns
\* the report as scanToken produced it together with txHash = null.
C17_FailureReturnsNull ==
    [][\A p \in DOMAIN publish :
         LET run == publish[p]
             after == publish'[p]
         IN  /\ after.pc # "thrown"
             /\ after.runs = run.runs =>
                    /\ after.report = run.report
                    /\ after.tokenAddress = run.tokenAddress
             /\ (after.runs = run.runs + 1 /\ ~after.connected) =>
                    /\ after.pc = "returned"
                    /\ scanAndPublish(after) = [report |-> after.report, txHash |-> Null]
                    /\ UNCHANGED <<regVars, lastCall>>
             /\ (run.pc \in {"check", "register", "update"} /\ after # run
                 /\ lastCall'.status # OK) =>
                    /\ after.pc = "returned"
                    /\ scanAndPublish(after) = [report |-> run.report, txHash |-> Null]
                    /\ NothingWritten]_vars

\* registerToken went through, then the agent was revoked and updateRiskScore
\* was rejected: the run returned null next to the report it was given
C17_Witness ==
    LET run == publish[AgentAcct]
    IN  /\ run.pc = "returned"
        /\ run.sent = <<"registerToken", "updateRiskScore">>
        /\ lastCall.op = "updateRiskScore"
        /\ lastCall.sender = AgentAcct
        /\ lastCall.status = NotAuthorized
        /\ scanAndPublish(run) = [report |-> lastCall.scores, txHash |-> Null]
        /\ RecordOf(run.tokenAddress).riskLevel = "PENDING"

\* "0x" followed by exactly 40 hexadecimal characters, upper or lower case
WellFormed(addr) ==
    /\ addr.isString
    /\ Len(addr.chars) = 42
    /\ SubSeq(addr.chars, 1, 2) = <<"0", "x">>
    /\ \A i \in 3..42 : addr.chars[i] \in HexChars

\* the step in which the aggregator stops waiting for its detectors
StopsWaiting == scan.pc = "waiting" /\ scan'.pc # "waiting"

\* C18 (as stated): the aggregator combines only after every one of the five
\* detector tasks has settled; no score is computed while a detector is
\* pending, and a failing detector neither cancels nor short-circuits the
\* others, whose results are still used. Stated for the three aggregators the
\* repository holds.
C18_CombineAfterAllSettled ==
    [][/\ StopsWaiting =>
            /\ \A d \in Detectors : scan.tasks[d] \in {"fulfilled", "rejected"}
            /\ scan'.pc = "returned"
            /\ scan'.tasks = scan.tasks
            /\ scan'.report = Report(scan.impl, scan.address, Extracted(scan))
       /\ \A d \in Detectors :
            (scan.tasks[d] = "pending" /\ scan'.tasks[d] = "rejected") =>
                /\ scan'.pc = scan.pc
                /\ \A e \in Detectors \ {d} : scan'.tasks[e] = scan.tasks[e]]_vars

\* the report fields that are computed from a detector's result
SubScoresOf(d) ==
    {"overallRisk", "riskLevel"} \cup
    CASE d = "contract" -> {"honeypotScore", "rugPullScore", "ownershipRisk", "taxRisk"}
      [] d = "liquidity" -> {"rugPullScore", "liquidityScore", "liquidityHealth"}
      [] d = "creator" -> {"honeypotScore", "rugPullScore"}
      [] d = "flash" -> {"flashLoanRisk"}
      [] d = "mev" -> {"mevRisk"}

\* the report the same request gets when no detector fails
ReportOfAll(run) ==
    Report(run.impl, run.address, [d \in Detectors |-> DetectorValue(d)])

\* a returned report differs from the all-succeeded report only in the
\* sub-scores of the detectors that failed
OnlyFailedSubScoresDiffer(run) ==
    \A f \in DOMAIN run.report :
        (\A d \in Detectors : run.tasks[d] = "rejected" => f \notin SubScoresOf(d))
        => run.report[f] = ReportOfAll(run)[f]

\* C19: in the agent's scanToken and in the server's scan endpoint, a scan of
\* a well-formed address is accepted and, whichever detectors fulfil or reject
\* (all five rejecting included), it ends by returning a report and never by
\* throwing; the report is the combination of the fulfilled results with the
\* defaults of the failed detectors, so only their sub-scores differ from the
\* report of a scan in which none failed.
C19_ScanAlwaysReports ==
    /\ [][scan.impl \in {"agent", "server"} =>
            /\ scan'.pc # "thrown"
            /\ (scan.pc \in FinalPcs /\ scan' # scan /\ WellFormed(scan'.address))
               => scan'.pc = "waiting"
            /\ StopsWaiting =>
                 /\ scan'.pc = "returned"
                 /\ scan'.report = Report(scan.impl, scan.address, Extracted(scan))
                 /\ OnlyFailedSubScoresDiffer(scan')]_vars
    /\ (scan.impl \in {"agent", "server"} /\ scan.pc = "waiting")
       ~> (scan.pc = "returned")

\* the agent returned a report although all five detectors failed: every
\* sub-score is the one the defaults give
C19_Witness ==
    /\ scan.impl = "agent"
    /\ scan.pc = "returned"
    /\ \A d \in Detectors : scan.tasks[d] = "rejected"
    /\ scan.report.honeypotScore = 15
    /\ scan.report.rugPullScore = 25
    /\ scan.report.liquidityScore = 50
    /\ scan.report.overallRisk = 27
    /\ scan.report.riskLevel = "LOW"
    /\ scanHistory[scan.address] = scan.report

\* C20 (as stated): in the agent's scanToken and in the server's scan
\* endpoint a malformed address, anything but "0x" followed by exactly 40
\* hexadecimal characters, is rejected before any detector is started, and
\* the rejection leaves scan history and statistics unchanged.
C20_MalformedRejectedFirst ==
    [][(/\ scan.impl \in {"agent", "server"}
        /\ scan.pc \in FinalPcs
        /\ scan' # scan
        /\ ~WellFormed(scan'.address))
       => /\ scan'.pc = "rejected"
          /\ \A d \in Detectors : scan'.tasks[d] = "idle"
          /\ UNCHANGED <<scanHistory, stats>>]_vars

\* the default staleness threshold the tests expect: 24 * 60 * 60 seconds
StalenessThreshold == 86400

\* C21: staleness is computed when the record is read: stalenessThreshold()
\* answers 24 hours, and a successful queryRisk(a) returns, after riskScore,
\* riskLevel and lastUpdated, the flag isStale = (now - lastUpdated >
\* stalenessThreshold), which is false in the block of an update; no record
\* stores the flag.
C21_StalenessAtReadTime ==
    /\ [][lastCall'.op = "stalenessThreshold" =>
            /\ lastCall'.status = OK
            /\ lastCall'.ret = <<StalenessThreshold>>]_vars
    /\ [][IsOkCall(lastCall', "queryRisk") =>
            /\ Len(lastCall'.ret) = 4
            /\ lastCall'.ret[4] =
                 (now - RecordOf(lastCall'.target).lastUpdated > StalenessThreshold)]_vars
    /\ [](\A a \in RegisteredTokens : "isStale" \notin DOMAIN RecordOf(a))

\* lastUpdated of a token, 0 while the token has no record
LastUpdatedOf(a) == IF isRegistered[a] THEN RecordOf(a).lastUpdated ELSE 0

\* C22: over every step of the registry and of the clock (block.timestamp
\* never goes back), lastUpdated of a token never decreases; it changes only
\* in a successful registerToken or updateRiskScore of that very token; and
\* every such call leaves it equal to the current block time.
C22_LastUpdatedMonotone ==
    [][/\ now' >= now
       /\ \A a \in ScoreTokens :
            /\ LastUpdatedOf(a)' >= LastUpdatedOf(a)
            /\ LastUpdatedOf(a)' # LastUpdatedOf(a) =>
                 /\ IsWrite(lastCall') /\ lastCall'.status = OK
                 /\ lastCall'.target = a
            /\ (IsWrite(lastCall') /\ lastCall'.status = OK /\ lastCall'.target = a) =>
                 /\ LastUpdatedOf(a)' = now'
                 /\ now' = now]_vars

\* an update mined after the clock advanced: DUMMY_TOKEN carries the later
\* time while DUMMY_TOKEN_2, registered earlier and not written since, keeps
\* the earlier one
C22_Witness ==
    /\ IsOkCall(lastCall, "updateRiskScore") /\ lastCall.target = DUMMY_TOKEN
    /\ isRegistered[DUMMY_TOKEN_2]
    /\ RecordOf(DUMMY_TOKEN).lastUpdated = now
    /\ RecordOf(DUMMY_TOKEN_2).lastUpdated < now

IsAgentManagement(call) == call.op \in {"authorizeAgent", "revokeAgent"}

\* C23: authorizeAgent and revokeAgent succeed only for the owner; called by
\* any other account, an authorized agent included, they are rejected and the
\* set of authorized agents (like the rest of the registry) stays as it was.
C23_OnlyOwnerManagesAgents ==
    [][IsAgentManagement(lastCall') =>
         /\ lastCall'.status = OK => lastCall'.sender = owner
         /\ lastCall'.sender # owner =>
              /\ lastCall'.status # OK
              /\ authorizedAgents' = authorizedAgents
              /\ NothingWritten]_vars

\* an authorized agent tried to authorize or revoke and was turned away
C23_Witness ==
    /\ IsAgentManagement(lastCall)
    /\ lastCall.sender = AgentAcct
    /\ authorizedAgents[AgentAcct]
    /\ lastCall.status = "OwnableUnauthorizedAccount"

\* C24: authorizeAgent(zero address) is rejected, with "VibeGuard: Zero
\* address" when the owner calls, and the zero address is an authorized
\* agent in no reachable state.
C24_ZeroAddressNeverAuthorized ==
    /\ [][(lastCall'.op = "authorizeAgent" /\ lastCall'.target = ZeroAddress) =>
            /\ lastCall'.status # OK
            /\ lastCall'.sender = owner => lastCall'.status = "VibeGuard: Zero address"]_vars
    /\ [](~authorizedAgents[ZeroAddress])

IsPauseCall(call) == call.op \in {"pause", "unpause"}

\* C25: pause and unpause are the owner's circuit breaker: a call by the
\* owner succeeds (no pause has succeeded before the first one, so the owner's
\* pause() finds the registry unpaused), a call that succeeds was sent by the
\* owner, and a call by any other account, an authorized agent included, is
\* rejected and changes nothing.
C25_OnlyOwnerPauses ==
    [][IsPauseCall(lastCall') =>
         /\ lastCall'.status = OK => lastCall'.sender = owner
         /\ (lastCall'.op = "pause" /\ lastCall'.sender = owner) => lastCall'.status = OK
         /\ lastCall'.sender # owner =>
              /\ lastCall'.status # OK
              /\ NothingWritten]_vars

IsRead(call) == call.op \in {"queryRisk", "getFullRiskReport"}

C27_UnverifiedScoresHigher ==
    (analysis.op = "analyzeContract" /\ analysis.input.sourceCode = NoSource)
    => /\ ~analysis.result.detectionFields["is_open_source"]
       /\ analysis.result.overallRisk >
            analyzeContract(analysis.input.bytecode, CleanSource).overallRisk

IsHolderAnalysis == analysis.op = "analyzeHolderConcentration"

\* percentage points of totalSupply held by the first k holders (at most k)
ShareTimes100(holders, k) == 100 * SumSeq(SubSeq(holders, 1, Min(k, Len(holders))))

\* the tiers as the specification lists them, for shares given as
\* 100 * quantity against percent * supply
Top1Tier(holders, supply) ==
    IF ShareTimes100(holders, 1) > 50 * supply THEN 40
    ELSE IF ShareTimes100(holders, 1) > 30 * supply THEN 25
    ELSE IF ShareTimes100(holders, 1) > 15 * supply THEN 10
    ELSE 0

Top5Tier(holders, supply) ==
    IF ShareTimes100(holders, 5) > 80 * supply THEN 30
    ELSE IF ShareTimes100(holders, 5) > 60 * supply THEN 15
    ELSE 0

FewHolders(holders) == IF Len(holders) < 10 THEN 20 ELSE 0

\* C28 as stated: for every holder list and positive supply the score is the
\* top-1 tier plus the top-5 tier plus 20 for fewer than 10 holders, capped at
\* 100, and the top-1 share above 50% comes with a CRITICAL finding.
C28_HolderTiers ==
    (IsHolderAnalysis /\ analysis.input.totalSupply > 0)
    => LET holders == analysis.input.holders
           supply == analysis.input.totalSupply
       IN  /\ analysis.result.score =
                Min(100, Top1Tier(holders, supply) + Top5Tier(holders, supply)
                           + FewHolders(holders))
           /\ Top1Tier(holders, supply) = 40 =>
                InSeq("CRITICAL", analysis.result.findings)

\* C28 amended: an empty holder list scores 30 without any tier; otherwise the
\* score is the sum of the top-1 tier (positive supply only), of the top-5
\* tier (positive supply and at least five holders listed only) and of 20 for
\* fewer than 10 holders; it never exceeds 90, so the cap at 100 never binds.
C28_HolderTiersGuarded ==
    IsHolderAnalysis
    => LET holders == analysis.input.holders
           supply == analysis.input.totalSupply
           top1 == IF supply > 0 THEN Top1Tier(holders, supply) ELSE 0
           top5 == IF supply > 0 /\ Len(holders) >= 5 THEN Top5Tier(holders, supply) ELSE 0
       IN  IF Len(holders) = 0
           THEN analysis.result.score = 30
           ELSE /\ analysis.result.score = top1 + top5 + FewHolders(holders)
                /\ analysis.result.score <= 90
                /\ top1 = 40 => analysis.result.findings[1] = "CRITICAL"
                /\ Len(analysis.result.findings) =
                     (IF top1 > 0 THEN 1 ELSE 0) + (IF top5 > 0 THEN 1 ELSE 0)
                       + (IF Len(holders) < 10 THEN 1 ELSE 0)

\* five holders, the first with 51 of 100 and 83 among them: 40 + 30 + 20
C28_Witness ==
    /\ IsHolderAnalysis
    /\ Len(analysis.input.holders) = 5
    /\ analysis.input.totalSupply = 100
    /\ analysis.input.holders[1] = 51
    /\ analysis.result.score = 90
    /\ analysis.result.findings = <<"CRITICAL", "CRITICAL", "HIGH">>

\* the five scores of a report that C29 names
AggregateScores(impl, r) ==
    << r.overallRisk, r.riskLevel, r.honeypotScore, r.rugPullScore,
       IF impl = "server" THEN r.liquidityHealth ELSE r.liquidityScore >>

\* the scan that just returned combined the detector reports that the recorded
\* earlier scan combined
SameDetectorReports ==
    /\ scan.pc = "returned"
    /\ analysis.op = "scanToken"
    /\ analysis.input.impl = scan.impl
    /\ analysis.input.in = Extracted(scan)

HasFailedRun(p) ==
    \/ publish[p].pc = "returned" /\ publish[p].runs >= 1 /\ publish[p].txHash = Null
    \/ publish[p].runs >= 2 /\ publish[p].prev.txHash = Null

\* some run has returned the hash of its updateRiskScore transaction
SomeRunPublished ==
    \E p \in DOMAIN publish :
        \/ publish[p].pc = "returned" /\ publish[p].txHash = TxHash
        \/ publish[p].runs >= 2 /\ publish[p].prev.txHash = TxHash

\* C30 as stated: however two publishOnChain runs for the same unregistered
\* token interleave, no registerToken is sent for a token that the other run
\* has registered in between, every run that returns has published (neither
\* fails), and the token then holds the scores of one of the two reports.
C30_RaceFree ==
    /\ lastCall.op = "registerToken" => lastCall.status = OK
    /\ \A p \in DOMAIN publish :
         (publish[p].pc = "returned" /\ publish[p].runs >= 1)
         => /\ publish[p].txHash = TxHash
            /\ ScoresOf(RecordOf(DUMMY_TOKEN)) \in { RaceReport(q) : q \in Publishers }

\* C30 amended: the token is registered once. A run that read isRegistered =
\* false and finds the token registered by the other run when its
\* registerToken is mined is rejected with "Already registered" and returns
\* null without sending updateRiskScore; this is the only way a run fails, it
\* happens to at most one of the two agents, and never to the run that found
\* the token registered. No updateRiskScore is rejected, and once a run has
\* published the token holds the scores of one of the two reports.
C30_RaceLosesOnce ==
    /\ nextTokenId <= 1
    /\ lastCall.op = "registerToken" =>
         lastCall.status \in {OK, "VibeGuard: Already registered"}
    /\ lastCall.op = "updateRiskScore" => lastCall.status = OK
    /\ \A p \in DOMAIN publish :
         (publish[p].pc = "returned" /\ publish[p].runs >= 1 /\ publish[p].txHash = Null)
         => /\ ~publish[p].found
            /\ publish[p].sent = <<"registerToken">>
            /\ isRegistered[DUMMY_TOKEN]
    /\ ~(HasFailedRun(Deployer) /\ HasFailedRun(AgentAcct))
    /\ \A p \in DOMAIN publish :
         (publish[p].runs >= 2 /\ publish[p].prev.txHash = Null
            /\ publish[p].pc \in {"update", "returned"})
         => /\ publish[p].found
            /\ ~InSeq("registerToken", publish[p].sent)
    /\ SomeRunPublished =>
         /\ isRegistered[DUMMY_TOKEN]
         /\ ScoresOf(RecordOf(DUMMY_TOKEN)) \in { RaceReport(q) : q \in Publishers }

\* both agents read isRegistered = false; the owner's agent registered first
\* and the other agent's registerToken was rejected: its run returned null
C30_Witness ==
    /\ lastCall.op = "registerToken"
    /\ lastCall.sender = AgentAcct
    /\ lastCall.status = "VibeGuard: Already registered"
    /\ ~publish[AgentAcct].found
    /\ publish[AgentAcct].pc = "returned"
    /\ publish[AgentAcct].txHash = Null
    /\ ~publish[Deployer].found
    /\ publish[Deployer].pc = "update"

\* C31: a registerToken or updateRiskScore call passes the authorization
\* check exactly when its sender has authorizedAgents = true or is the
\* current owner; transferring ownership and revoking leave the flags of
\* everybody else alone, so the owner writes after revokeAgent(owner) and the
\* deployer writes after it gave ownership away, until it is revoked.
C31_WritersAreAgentsPlusOwner ==
    [][/\ IsWrite(lastCall') =>
            (lastCall'.status # NotAuthorized <=> IsWriter(lastCall'.sender))
       /\ (lastCall'.op \in {"transferOwnership", "renounceOwnership"}) =>
            authorizedAgents' = authorizedAgents
       /\ (lastCall'.op = "revokeAgent" /\ lastCall'.status = OK) =>
            /\ owner' = owner
            /\ \A a \in Addresses :
                 a # lastCall'.target => authorizedAgents'[a] = authorizedAgents[a]]_vars

\* the deployer gave ownership to agent.address, was not revoked, and wrote
C31_Witness ==
    /\ owner = AgentAcct
    /\ ~authorizedAgents[AgentAcct]
    /\ authorizedAgents[Deployer]
    /\ IsWrite(lastCall)
    /\ lastCall.sender = Deployer
    /\ lastCall.status = OK

IsAggregate == analysis.op = "aggregate"

WithField(field) ==
    analyzeContract(analysis.input.bytecode,
                    Source(analysis.input.sourceCode.matched \cup {field},
                           analysis.input.sourceCode.mimics))

\* C33: a negative weight reduces risk: in analyzeContract, a source that
\* additionally matches is_ownership_renounced never has a higher
\* ownershipRisk, and one that additionally matches has_liquidity_lock never
\* has a higher rugPullScore nor a higher overallRisk.
C33_NegativeWeightReduces ==
    (analysis.op = "analyzeContract" /\ analysis.input.sourceCode # NoSource)
    => /\ WithField("is_ownership_renounced").ownershipRisk <= analysis.result.ownershipRisk
       /\ WithField("has_liquidity_lock").rugPullScore <= analysis.result.rugPullScore
       /\ WithField("has_liquidity_lock").overallRisk <= analysis.result.overallRisk

\* the signed DETECTION_FIELDS weights of the detected fields of a category
WeightSum(detected, category) ==
    SumOf({ <<f[1], f[3]>> : f \in {f \in DETECTION_FIELDS : f[2] = category /\ f[1] \in detected} })

\* C34: for every combination of detection fields, the reported
\* ownershipRisk is max(0, sum of the DETECTION_FIELDS weights of the
\* detected Ownership Risks fields) and the reported taxRisk is max(0, sum of
\* the weights of the detected Tax & Fees fields), by the server route and by
\* analyzeContract; with no field of the category detected the value is 0.
C34_CategoryWeightSums ==
    /\ (IsAggregate /\ analysis.input.impl = "server")
       => LET detected == analysis.input.in["contract"].detected
          IN  /\ analysis.result.ownershipRisk = Max(0, WeightSum(detected, "Ownership Risks"))
              /\ analysis.result.taxRisk = Max(0, WeightSum(detected, "Tax & Fees"))
    /\ analysis.op = "analyzeContract"
       => LET detected == {f \in FieldIds : analysis.result.detectionFields[f]}
          IN  /\ analysis.result.ownershipRisk = Max(0, WeightSum(detected, "Ownership Risks"))
              /\ analysis.result.taxRisk = Max(0, WeightSum(detected, "Tax & Fees"))

IsMevAnalysis == analysis.op = "MEVDetector.analyze" /\ ~analysis.input.failed

\* the contributions of the claim, by group, for the bytecode analysed
SandwichSum ==
    LET code == analysis.input.markers
    IN  (IF "setFee" \in code THEN 25 ELSE 0)
        + (IF "setCooldownEnabled" \notin code THEN 15 ELSE 0)
        + (IF "approve" \in code /\ "increaseAllowance" \notin code THEN 10 ELSE 0)
        - (IF "antiBot" \in code THEN 15 ELSE 0)
        - (IF "maxTx" \in code THEN 10 ELSE 0)

OtherGroupsSum ==
    LET code == analysis.input.markers
    IN  10 * Cardinality(SwapSelectors \cap code)
        + (IF "feeOnTransferSwap" \in code THEN 20 ELSE 0)
        + (IF "botIndicator" \in code THEN 15 ELSE 0)
        + (IF analysis.result.depth = "has_lp_pair" THEN 5 ELSE 0)

\* C35 as stated: mevRisk = min(100, max(0, S)) for S the sum of all
\* contributions, the negative ones offsetting the positive ones of every
\* group before the clamp.
C35_MevOneClamp ==
    IsMevAnalysis => analysis.result.mevRisk = Min(100, Max(0, SandwichSum + OtherGroupsSum))

\* C35: mevRisk = min(100, max(0, A) + B), where A is the sum of the sandwich
\* contributions (+25 mutable fee, +15 no cooldown, +10 approve without
\* increaseAllowance, -15 anti-bot, -10 max-tx) and B the sum of the others
\* (+10 per DEX swap signature, +20 fee-on-transfer swap, +15 once for a bot
\* selector, +5 for an LP pair): anti-bot and max-tx offset only the sandwich
\* contributions.
C35_MevGroupClamp ==
    IsMevAnalysis => analysis.result.mevRisk = Min(100, Max(0, SandwichSum) + OtherGroupsSum)

C35_Witness ==
    /\ IsMevAnalysis
    /\ SandwichSum < 0
    /\ OtherGroupsSum > 0
    /\ analysis.result.mevRisk = OtherGroupsSum

\* the findings profileCreator derives from wallet and deployment values
DerivedFindings ==
    {"Wallet is very new", "Wallet is relatively new", "Wallet is established",
     "serial deployer", "prolific deployer", "Deployed contracts", "Very low balance"}

\* C36: when an upstream lookup of profileCreator fails, the report's
\* riskScore is the one neutral default (30, as for an unidentified creator)
\* whichever lookup failed, and its findings name the data as unavailable
\* and hold nothing derived from substituted zero values.
C36_FailedLookupIsNeutral ==
    (/\ analysis.op = "profileCreator"
     /\ \/ analysis.input.creator.failed
        \/ analysis.input.deployed.failed
        \/ analysis.input.wallet.failed)
    => /\ analysis.result.riskScore = 30
       /\ analysis.result.findings # {}
       /\ analysis.result.findings \cap DerivedFindings = {}

ReportScores(report) ==
    {report.overallRisk, report.honeypotScore, report.rugPullScore, report.liquidityScore}

\* C37: for detector sub-scores in 0..100 and any combination of failed
\* detectors, the overallRisk, honeypotScore, rugPullScore and
\* liquidityScore of a scanToken report lie in 0..100, and an
\* updateRiskScore sending them is never rejected as out of range.
C37_ReportScoresInRange ==
    /\ analysis.op = "scanToken" => ReportScores(analysis.result) \subseteq 0..100
    /\ lastCall.op = "updateRiskScore" => lastCall.status # ScoreOutOfRange

C37_Witness ==
    /\ analysis.op = "scanToken"
    /\ analysis.input.tasks["liquidity"] = "rejected"
    /\ analysis.input.tasks["contract"] = "fulfilled"
    /\ analysis.result.rugPullScore = 90
    /\ lastCall.op = "updateRiskScore"
    /\ lastCall.status = OK

\* no updateRiskScore has succeeded for the registered token a: its record
\* still carries the riskLevel only registerToken writes
IsUnscored(a) == isRegistered[a] /\ RecordOf(a).riskLevel = "PENDING"

\* C38: between registerToken and the first successful updateRiskScore of a
\* token, isSafe(a, maxRisk) returns true exactly when maxRisk >= 50.
C38_PendingSafeFromFifty ==
    [][(lastCall'.op = "isSafe" /\ IsUnscored(lastCall'.target)) =>
          lastCall'.ret = <<lastCall'.scores[1] >= 50>>]_vars

C38_Witness ==
    /\ lastCall.op = "isSafe"
    /\ IsUnscored(lastCall.target)
    /\ lastCall.scores = <<50>>
    /\ lastCall.ret = <<TRUE>>

SpotPricePresent ==
    \E p \in {"getReserves", "balanceOf", "slot0", "latestAnswer", "getAmountsOut",
              "getAmountOut", "quote"} :
        <<p, "()">> \in analysis.input \/ <<p, "(address)">> \in analysis.input

TwapPresent ==
    \E p \in {"observe", "consult", "getTimeWeightedAverage", "cumulativePrices", "twap"} :
        <<p, "()">> \in analysis.input

OracleFindings ==
    SelectSeq(analysis.result.vulnerabilities, LAMBDA v : v.type = "VULNERABLE_ORACLE")

\* C39: the oracle classification is twap, not vulnerable and without a
\* VULNERABLE_ORACLE finding whenever a TWAP indicator is present, spot-price
\* patterns or not; it is spot_price, vulnerable, with exactly one critical
\* VULNERABLE_ORACLE finding exactly when a spot-price pattern and no TWAP
\* indicator is present; otherwise no oracle is reported and nothing found.
C39_OracleClassification ==
    analysis.op = "_analyzeOraclePatterns"
    => LET oracle == analysis.result.oracleAnalysis
           vulnerable ==
               /\ oracle.type = "spot_price"
               /\ oracle.isVulnerable
               /\ Len(OracleFindings) = 1
               /\ OracleFindings[1].severity = "critical"
       IN  /\ TwapPresent =>
                 oracle.type = "twap" /\ ~oracle.isVulnerable /\ OracleFindings = <<>>
           /\ vulnerable <=> (SpotPricePresent /\ ~TwapPresent)
           /\ (~SpotPricePresent /\ ~TwapPresent) =>
                 /\ oracle.type = "no_oracle_detected"
                 /\ ~oracle.isVulnerable
                 /\ OracleFindings = <<>>

C39_Witness ==
    /\ analysis.op = "_analyzeOraclePatterns"
    /\ SpotPricePresent
    /\ TwapPresent
    /\ analysis.result.oracleAnalysis.type = "twap"
    /\ analysis.result.vulnerabilities = <<>>

\* the entry the server keeps of a report
HistoryEntry(report) ==
    [address |-> report.address, overallRisk |-> report.overallRisk,
     riskLevel |-> report.riskLevel]

\* the last n elements of s
LastOf(s, n) == IF Len(s) <= n THEN s ELSE SubSeq(s, Len(s) - n + 1, Len(s))

\* C40: after any sequence of scan requests to the server, scanHistory is
\* the last 100 completed scans in completion order, totalScans is the
\* number of scans that returned a report, threatsDetected the number of
\* those with overallRisk >= 60 (so at most totalScans), and a request
\* answered 400 or 500 changes none of the three.
C40_ServerStats ==
    [][/\ IF scan'.completed = scan.completed + 1
          THEN /\ stats'.totalScans = stats.totalScans + 1
               /\ stats'.threatsDetected =
                     stats.threatsDetected
                     + (IF scan'.report.overallRisk >= 60 THEN 1 ELSE 0)
               /\ stats'.scanHistory =
                     LastOf(Append(stats.scanHistory, HistoryEntry(scan'.report)), 100)
          ELSE stats' = stats
       /\ Len(stats'.scanHistory) <= 100
       /\ stats'.totalScans = scan'.completed
       /\ stats'.threatsDetected <= stats'.totalScans]_vars

\* more than 100 scans were answered, two of them threats, and the history
\* no longer holds a threat while the counter still counts both
C40_Witness ==
    /\ stats.totalScans = 102
    /\ stats.threatsDetected = 2
    /\ Len(stats.scanHistory) = 100
    /\ \A i \in 1..100 : stats.scanHistory[i].overallRisk < 60
    /\ scan.pc = "thrown"

====
